---- MODULE Spec2Model ----
(***************************************************************************)
(* Request handlers of the Desert Solutions API as one state machine.      *)
(* One request is in flight at a time: Receive* puts a request in front    *)
(* of a route, the route's actions run the handler from one await to the   *)
(* next, the collaborators (payment provider, database proxy, object       *)
(* storage, PDF renderer, email sender) answer each awaited call with a    *)
(* value or a rejection, and Finish hands the response back.               *)
(***************************************************************************)
EXTENDS Integers, Sequences, FiniteSets, TLC

VARIABLES
    route,   \* the handler the request in flight is routed to, or "idle"
    req,     \* the request in flight
    pc,      \* the await the handler is suspended at, "start" or "done"
    loc,     \* the handler's local variables
    calls,   \* the collaborator calls made for this request, in call order
    resp     \* the response returned, once pc = "done"

vars == <<route, req, pc, loc, calls, resp>>

(***************************************************************************)
(* Bounds of the model.                                                    *)
(***************************************************************************)
DigestLen == 1          \* bytes of a digest (SHA-256 has 32)
MaxItems == 2           \* longest list in a request (items, productIds, languages)
MantissaBits == 3       \* significant bits of a number (a double has 53)
MaxDeliveries == 2      \* deliveries of one webhook request in flight together

(***************************************************************************)
(* Sets the inputs and the collaborators' answers are drawn from.          *)
(***************************************************************************)
SeqsUpTo(S, n) == UNION {[1..k -> S] : k \in 0..n}

NoReq == [none |-> TRUE]
NoLoc == [none |-> TRUE]
NoResp == [status |-> 0, ctype |-> "none", error |-> "", details |-> FALSE,
           message |-> FALSE, data |-> "none"]

SigChars == {"0", "a", "A", "g"}
\* every header of up to one character more than a digest, and two of a byte
\* more than a digest
SigValues ==
    SeqsUpTo(SigChars, 2 * DigestLen + 1)
      \cup {[i \in 1..2 * DigestLen + 2 |-> c] : c \in {"0", "a"}}
TsValues == {<<>>, <<"1">>, <<"2">>}
Headers(values) == {[present |-> FALSE, value |-> <<>>]}
                     \cup {[present |-> TRUE, value |-> v] : v \in values}

InvoiceIds == {"i1", "i2"}
CustomerIds == {"c1", "c2"}
Emails == {"a@x", "b@x"}

\* Raw webhook bodies; JSONparse says what each parses to.
WebhookBodies == {<<"garbage">>, <<"null">>, <<"{}">>,
                  <<"paid:i1">>, <<"paid:i2">>, <<"paid:nodata">>,
                  <<"failed:i1">>, <<"overdue:i1">>, <<"refunded:i1">>}

(***************************************************************************)
(* Responses.                                                              *)
(***************************************************************************)
JsonOk(status, data) ==
    [status |-> status, ctype |-> "application/json", error |-> "",
     details |-> FALSE, message |-> FALSE, data |-> data]

JsonError(status, error) ==
    [status |-> status, ctype |-> "application/json", error |-> error,
     details |-> FALSE, message |-> FALSE, data |-> "none"]

MutZodErrorAsServerError(error) ==
    [status |-> 500, ctype |-> "application/json", error |-> error,
     details |-> FALSE, message |-> TRUE, data |-> "none"]

\* the catch block's answer to a schema validation error
ZodError(error) ==
    [status |-> 400, ctype |-> "application/json", error |-> error,
     details |-> TRUE, message |-> FALSE, data |-> "none"]

MutServerErrorNoMessage(error) ==
    [status |-> 500, ctype |-> "application/json", error |-> error,
     details |-> FALSE, message |-> FALSE, data |-> "none"]

\* the catch block's answer to any other exception
ServerError(error) ==
    [status |-> 500, ctype |-> "application/json", error |-> error,
     details |-> FALSE, message |-> TRUE, data |-> "none"]

Pdf(data) ==
    [status |-> 200, ctype |-> "application/pdf", error |-> "",
     details |-> FALSE, message |-> FALSE, data |-> data]

(***************************************************************************)
(* Collaborator calls. A call is appended when it is made and marked when  *)
(* its promise settles; item is the position of the list element the call  *)
(* is made for (0 when the call is not made in a loop), ret the value the  *)
(* call resolved to, if the handler reads one.                             *)
(***************************************************************************)
Call(op, arg, item) ==
    [op |-> op, arg |-> arg, item |-> item, st |-> "pending", ret |-> <<>>]

\* the i-th call settles without a value the handler reads
Settle(cs, i, st) == [cs EXCEPT ![i].st = st]

SettleLast(cs, st) == Settle(cs, Len(cs), st)

\* the i-th call resolves to a value
Resolve(cs, i, value) == [cs EXCEPT ![i].st = "ok", ![i].ret = <<value>>]

ResolveLast(cs, value) == Resolve(cs, Len(cs), value)

Outcomes == {"ok", "fail"}

(***************************************************************************)
(* Optional values: undefined / null is None, a value x is Some(x).        *)
(***************************************************************************)
None == <<>>

Some(x) == <<x>>

IsSome(o) == o # <<>>

\* o ?? d
OrElse(o, d) == IF o # <<>> THEN o[1] ELSE d

\* z.string().email() on the addresses of the model
IsEmail(s) == s \in Emails

\* a body req.json() rejects stands for every request that is not JSON
JsonRequests(bodies) ==
    {[json |-> FALSE, body |-> CHOOSE b \in bodies : TRUE]}
      \cup {[json |-> TRUE, body |-> b] : b \in bodies}

(***************************************************************************)
(* Numbers are binary floating point: a value keeps MantissaBits           *)
(* significant bits, and the result of - and + is rounded to the nearest   *)
(* such value, ties to the even mantissa. Amounts are counted in units of  *)
(* the smallest quantum that occurs.                                       *)
(***************************************************************************)
RECURSIVE Pow2(_)
Pow2(n) == IF n = 0 THEN 1 ELSE 2 * Pow2(n - 1)

Representable(n) ==
    \E e \in 0..MantissaBits + 2 :
        n % Pow2(e) = 0 /\ n \div Pow2(e) < Pow2(MantissaBits)

Representables == {n \in 0..(4 * Pow2(MantissaBits)) : Representable(n)}

\* the nearest representable value to x >= 0
RoundAbs(x) ==
    LET lower == CHOOSE r \in Representables :
                   r <= x /\ \A q \in Representables : q <= x => q <= r
        upper == CHOOSE r \in Representables :
                   r >= x /\ \A q \in Representables : q >= x => q >= r
    IN  IF x - lower < upper - x THEN lower
        ELSE IF x - lower > upper - x THEN upper
        ELSE IF lower = upper THEN lower
        ELSE IF (lower \div (upper - lower)) % 2 = 0 THEN lower ELSE upper

Round(x) == IF x < 0 THEN 0 - RoundAbs(0 - x) ELSE RoundAbs(x)

\* a - b and a + b as the runtime computes them
FloatSub(a, b) == Round(a - b)

FloatAdd(a, b) == Round(a + b)

(***************************************************************************)
(* Buffer.from(s, 'hex') and digest('hex').                                *)
(***************************************************************************)
HexDigits == <<"0", "1", "2", "3", "4", "5", "6", "7",
               "8", "9", "a", "b", "c", "d", "e", "f">>

UpperHexDigits == <<"0", "1", "2", "3", "4", "5", "6", "7",
                    "8", "9", "A", "B", "C", "D", "E", "F">>

\* the value of a hex digit of either case, -1 for any other character
NibbleOf(c) ==
    IF \E n \in 1..16 : HexDigits[n] = c
    THEN (CHOOSE n \in 1..16 : HexDigits[n] = c) - 1
    ELSE IF \E n \in 1..16 : UpperHexDigits[n] = c
         THEN (CHOOSE n \in 1..16 : UpperHexDigits[n] = c) - 1
         ELSE -1

\* Decoding stops at the first pair that is not two hex digits; a trailing
\* single character is dropped.
BufferFromHex(s) ==
    LET IsPair(j) == NibbleOf(s[2 * j - 1]) >= 0 /\ NibbleOf(s[2 * j]) >= 0
        pairs == CHOOSE k \in 0..(Len(s) \div 2) :
                   /\ \A j \in 1..k : IsPair(j)
                   /\ k < Len(s) \div 2 => ~IsPair(k + 1)
    IN  [j \in 1..pairs |-> 16 * NibbleOf(s[2 * j - 1]) + NibbleOf(s[2 * j])]

\* two lower-case digits for each byte
HexEncode(bytes) ==
    [i \in 1..(2 * Len(bytes)) |->
       IF i % 2 = 1
       THEN HexDigits[(bytes[(i + 1) \div 2] \div 16) + 1]
       ELSE HexDigits[(bytes[i \div 2] % 16) + 1]]

(***************************************************************************)
(* createHmac('sha256', secret).update(msg).digest('hex'): a keyed digest  *)
(* of the message, DigestLen bytes long. The digest is a fixed function of *)
(* the message's characters and their positions.                           *)
(***************************************************************************)
MsgChars == <<".", "1", "2", "garbage", "null", "{}", "paid:i1", "paid:i2",
              "paid:nodata", "failed:i1", "overdue:i1", "refunded:i1">>

CharCode(c) == CHOOSE n \in 1..Len(MsgChars) : MsgChars[n] = c

\* the characters from position pos on, each weighted by its position
RECURSIVE MsgCode(_, _)
MsgCode(msg, pos) ==
    IF pos > Len(msg) THEN 0
    ELSE pos * CharCode(msg[pos]) + MsgCode(msg, pos + 1)

DigestBytes == <<0, 10, 160, 170>>

HmacHex(msg) ==
    HexEncode([k \in 1..DigestLen |->
                 DigestBytes[((MsgCode(msg, 1) + k) % Len(DigestBytes)) + 1]])

(***************************************************************************)
(* Payment webhook: POST /api/desert-solutions/payment/webhook             *)
(***************************************************************************)

\* JSON.parse of a raw body: valid is FALSE when it throws a SyntaxError.
JSONparse(body) ==
    LET t == body[1] IN
    CASE t = "garbage"      -> [valid |-> FALSE, isNull |-> FALSE, type |-> "", hasData |-> FALSE, invoiceId |-> ""]
      [] t = "null"         -> [valid |-> TRUE, isNull |-> TRUE, type |-> "", hasData |-> FALSE, invoiceId |-> ""]
      [] t = "{}"           -> [valid |-> TRUE, isNull |-> FALSE, type |-> "", hasData |-> FALSE, invoiceId |-> ""]
      [] t = "paid:i1"      -> [valid |-> TRUE, isNull |-> FALSE, type |-> "invoice.paid", hasData |-> TRUE, invoiceId |-> "i1"]
      [] t = "paid:i2"      -> [valid |-> TRUE, isNull |-> FALSE, type |-> "invoice.paid", hasData |-> TRUE, invoiceId |-> "i2"]
      [] t = "paid:nodata"  -> [valid |-> TRUE, isNull |-> FALSE, type |-> "invoice.paid", hasData |-> FALSE, invoiceId |-> ""]
      [] t = "failed:i1"    -> [valid |-> TRUE, isNull |-> FALSE, type |-> "invoice.payment_failed", hasData |-> TRUE, invoiceId |-> "i1"]
      [] t = "overdue:i1"   -> [valid |-> TRUE, isNull |-> FALSE, type |-> "invoice.overdue", hasData |-> TRUE, invoiceId |-> "i1"]
      [] t = "refunded:i1"  -> [valid |-> TRUE, isNull |-> FALSE, type |-> "invoice.refunded", hasData |-> TRUE, invoiceId |-> "i1"]

MutHeaderMissingNullOnly(h) == ~h.present

\* !signature || !timestamp: a header that is absent or the empty string
HeaderMissing(h) == ~h.present \/ h.value = <<>>

\* `${timestamp}.${body}`
SignedMessage(timestamp, body) == timestamp \o <<".">> \o body

\* The comparison the handler makes: the decoded header against the decoded
\* expected digest, lengths first, then timingSafeEqual.
MutSignatureAcceptedLengthOnly(signature, timestamp, body) ==
    Len(BufferFromHex(signature))
      = Len(BufferFromHex(HmacHex(SignedMessage(timestamp, body))))

MutSignatureAcceptedAlways(signature, timestamp, body) == TRUE

\* a freshness check: only the newest timestamp is taken
MutSignatureAcceptedFresh(signature, timestamp, body) ==
    /\ timestamp = <<"2">>
    /\ BufferFromHex(signature)
         = BufferFromHex(HmacHex(SignedMessage(timestamp, body)))

SignatureAccepted(signature, timestamp, body) ==
    \E expectedSignature \in {HmacHex(SignedMessage(timestamp, body))} :
        LET signatureBuffer == BufferFromHex(signature)
            expectedBuffer == BufferFromHex(expectedSignature)
        IN  /\ Len(signatureBuffer) = Len(expectedBuffer)
            /\ signatureBuffer = expectedBuffer

\* timingSafeEqual is called whatever the lengths are
MutTimingSafeEqualLengths(signatureBuffer, expectedBuffer) ==
    Some(<<Len(signatureBuffer), Len(expectedBuffer)>>)

\* lines 40-41: the lengths of the two buffers timingSafeEqual is called
\* with; None when the length test before `||` is true and it is not called
TimingSafeEqualLengths(signatureBuffer, expectedBuffer) ==
    IF Len(signatureBuffer) # Len(expectedBuffer) THEN None
    ELSE Some(<<Len(signatureBuffer), Len(expectedBuffer)>>)

\* timingSafeEqual throws a RangeError when the lengths differ
RangeError(compared) == compared # None /\ compared[1][1] # compared[1][2]

\* invoice.overdue falls through to the default branch
MutHandlerOf(type) ==
    CASE type = "invoice.paid" -> "handleInvoicePaid"
      [] type = "invoice.payment_failed" -> "handlePaymentFailed"
      [] OTHER -> ""

\* the handler the switch on event.type dispatches to, "" for the default arm
HandlerOf(type) ==
    CASE type = "invoice.paid" -> "handleInvoicePaid"
      [] type = "invoice.payment_failed" -> "handlePaymentFailed"
      [] type = "invoice.overdue" -> "handleInvoiceOverdue"
      [] OTHER -> ""

\* the notification each event handler sends
SubjectOf(handler) ==
    CASE handler = "handleInvoicePaid" -> "Payment Received"
      [] handler = "handlePaymentFailed" -> "Payment Failed"
      [] handler = "handleInvoiceOverdue" -> "Payment Reminder"

WebhookRequests ==
    [signature : Headers(SigValues), timestamp : Headers(TsValues),
     body : WebhookBodies]

WebhookLoc ==
    [bodyRead |-> FALSE, compared |-> None, verified |-> FALSE,
     parsed |-> FALSE, handler |-> "", invoice |-> "none", customer |-> "none"]

\* what invoices.get and customers.get may resolve to
ProviderInvoices(id) ==
    [id : {id}, customerId : CustomerIds, number : {"INV-1"},
     total : {10, 12}, paidAmount : {None, Some(0), Some(1), Some(4)}]

ProviderCustomers(id) == [id : {id}, email : Emails]

Respond(r) ==
    /\ resp' = r
    /\ pc' = "done"

ReceiveWebhook ==
    /\ route = "idle"
    /\ \E r \in WebhookRequests : req' = r
    /\ route' = "webhook"
    /\ pc' = "start"
    /\ loc' = WebhookLoc
    /\ calls' = <<>>
    /\ resp' = NoResp

\* lines 17-30: the header check, then await req.text()
WebhookPOST ==
    /\ route = "webhook" /\ pc = "start"
    /\ IF HeaderMissing(req.signature) \/ HeaderMissing(req.timestamp)
       THEN /\ Respond(JsonError(401, "Missing webhook signature headers"))
            /\ UNCHANGED loc
       ELSE /\ pc' = "text"
            /\ loc' = [loc EXCEPT !.bodyRead = TRUE]
            /\ UNCHANGED resp
    /\ UNCHANGED <<route, req, calls>>

\* lines 32-77 up to the event handler's first await
WebhookVerify ==
    /\ route = "webhook" /\ pc = "text"
    /\ LET event == JSONparse(req.body)
           handler == HandlerOf(event.type)
       IN
       \E expectedSignature \in {HmacHex(SignedMessage(req.timestamp.value,
                                                       req.body))} :
       \E signatureBuffer \in {BufferFromHex(req.signature.value)} :
       \E expectedBuffer \in {BufferFromHex(expectedSignature)} :
       \E compared \in {TimingSafeEqualLengths(signatureBuffer, expectedBuffer)} :
       IF RangeError(compared)
       THEN \* thrown inside the try block, caught at line 79
            /\ Respond(ServerError("Failed to process webhook"))
            /\ loc' = [loc EXCEPT !.compared = compared]
            /\ UNCHANGED calls
       ELSE IF ~SignatureAccepted(req.signature.value, req.timestamp.value, req.body)
       THEN /\ Respond(JsonError(401, "Invalid webhook signature"))
            /\ loc' = [loc EXCEPT !.compared = compared]
            /\ UNCHANGED calls
       ELSE IF ~event.valid \/ event.isNull
       THEN \* JSON.parse throws, or event.type reads a property of null
            /\ Respond(ServerError("Failed to process webhook"))
            /\ loc' = [loc EXCEPT !.compared = compared, !.verified = TRUE,
                                  !.parsed = TRUE]
            /\ UNCHANGED calls
       ELSE IF handler = ""
       THEN /\ Respond(JsonOk(200, [received |-> TRUE]))
            /\ loc' = [loc EXCEPT !.compared = compared, !.verified = TRUE,
                                  !.parsed = TRUE]
            /\ UNCHANGED calls
       ELSE IF ~event.hasData
       THEN \* data.invoiceId reads a property of undefined; the handler rethrows
            /\ Respond(ServerError("Failed to process webhook"))
            /\ loc' = [loc EXCEPT !.compared = compared, !.verified = TRUE,
                                  !.parsed = TRUE, !.handler = handler]
            /\ UNCHANGED calls
       ELSE /\ calls' = Append(calls, Call("invoices.get", event.invoiceId, 0))
            /\ loc' = [loc EXCEPT !.compared = compared, !.verified = TRUE,
                                  !.parsed = TRUE, !.handler = handler]
            /\ pc' = "invoice"
            /\ UNCHANGED resp
    /\ UNCHANGED <<route, req>>

\* await mercuryClient.invoices.get settles
WebhookInvoice ==
    /\ route = "webhook" /\ pc = "invoice"
    /\ \/ /\ calls' = SettleLast(calls, "fail")
          /\ Respond(ServerError("Failed to process webhook"))
          /\ UNCHANGED loc
       \/ \E invoice \in ProviderInvoices(calls[Len(calls)].arg) :
            /\ calls' = Append(ResolveLast(calls, invoice),
                               Call("customers.get", invoice.customerId, 0))
            /\ loc' = [loc EXCEPT !.invoice = invoice]
            /\ pc' = "customer"
            /\ UNCHANGED resp
    /\ UNCHANGED <<route, req>>

\* await mercuryClient.customers.get settles
WebhookCustomer ==
    /\ route = "webhook" /\ pc = "customer"
    /\ \/ /\ calls' = SettleLast(calls, "fail")
          /\ Respond(ServerError("Failed to process webhook"))
          /\ UNCHANGED loc
       \/ \E customer \in ProviderCustomers(calls[Len(calls)].arg) :
            /\ calls' = Append(ResolveLast(calls, customer),
                               Call("sendEmail",
                                    [to |-> customer.email,
                                     subject |-> SubjectOf(loc.handler),
                                     attachments |-> <<>>], 0))
            /\ loc' = [loc EXCEPT !.customer = customer]
            /\ pc' = "email"
            /\ UNCHANGED resp
    /\ UNCHANGED <<route, req>>

\* a rejected sendEmail is swallowed
MutAfterHandler(st) == JsonOk(200, [received |-> TRUE])

\* the handler returned and line 77 acknowledges, or it rethrew (catch
\* blocks at 120-123, 159-162, 204-207) and POST's catch answers 500
AfterHandler(st) ==
    IF st = "ok" THEN JsonOk(200, [received |-> TRUE])
    ELSE ServerError("Failed to process webhook")

\* await sendEmail settles
WebhookEmail ==
    /\ route = "webhook" /\ pc = "email"
    /\ \E st \in Outcomes :
         /\ calls' = SettleLast(calls, st)
         /\ Respond(AfterHandler(st))
    /\ UNCHANGED <<route, req, loc>>

(***************************************************************************)
(* Invoice creation: POST /api/desert-solutions/invoice/create             *)
(***************************************************************************)
InvoiceCreateBodies ==
    [email : Emails \cup {"not-an-email"}, total : {0, 100},
     sendEmail : {None, Some(TRUE)}]

\* createInvoiceSchema.parse: email is an e-mail address, total is positive
CreateInvoiceSchemaOk(body) == IsEmail(body.email) /\ body.total > 0

\* what customers.create may resolve to
CreatedCustomers(email) == [id : CustomerIds, email : {email}]

\* the argument of mercuryClient.invoices.create
InvoiceCreateArg(body, customer) ==
    [customerId |-> customer.id, total |-> body.total,
     sendEmail |-> OrElse(body.sendEmail, FALSE)]

MutInvoiceCreated(invoice, customer) ==
    [success |-> TRUE,
     invoice |-> [id |-> invoice.id, invoiceNumber |-> invoice.number,
                  total |-> invoice.total, customerId |-> invoice.customerId]]

\* the invoice envelope of the 201 response
InvoiceCreated(invoice, customer) ==
    [success |-> TRUE,
     invoice |-> [id |-> invoice.id, invoiceNumber |-> invoice.number,
                  total |-> invoice.total, customerId |-> customer.id]]

ReceiveInvoiceCreate ==
    /\ route = "idle"
    /\ \E r \in JsonRequests(InvoiceCreateBodies) : req' = r
    /\ route' = "invoice/create"
    /\ pc' = "start"
    /\ loc' = [customer |-> "none"]
    /\ calls' = <<>>
    /\ resp' = NoResp

\* lines 55-66: req.json(), the schema, then await customers.create
InvoiceCreatePOST ==
    /\ route = "invoice/create" /\ pc = "start"
    /\ IF ~req.json
       THEN /\ Respond(ServerError("Failed to create invoice"))
            /\ UNCHANGED calls
       ELSE IF ~CreateInvoiceSchemaOk(req.body)
       THEN /\ Respond(ZodError("Invalid request data"))
            /\ UNCHANGED calls
       ELSE /\ calls' = Append(calls, Call("customers.create",
                                           [email |-> req.body.email], 0))
            /\ pc' = "customer"
            /\ UNCHANGED resp
    /\ UNCHANGED <<route, req, loc>>

\* customers.create settles; lines 68-88: await invoices.create
InvoiceCreateCustomer ==
    /\ route = "invoice/create" /\ pc = "customer"
    /\ \/ /\ calls' = SettleLast(calls, "fail")
          /\ Respond(ServerError("Failed to create invoice"))
          /\ UNCHANGED loc
       \/ \E customer \in CreatedCustomers(req.body.email) :
            /\ calls' = Append(ResolveLast(calls, customer),
                               Call("invoices.create",
                                    InvoiceCreateArg(req.body, customer), 0))
            /\ loc' = [loc EXCEPT !.customer = customer]
            /\ pc' = "invoice"
            /\ UNCHANGED resp
    /\ UNCHANGED <<route, req>>

\* the customer just created is deleted again
MutInvoiceRejected(cs) ==
    Append(SettleLast(cs, "fail"),
           Call("customers.delete", cs[1].ret[1].id, 0))

\* lines 103-117: the catch block after invoices.create rejected logs and
\* answers; it makes no call
InvoiceRejected(cs) == SettleLast(cs, "fail")

\* invoices.create settles; lines 90-101
InvoiceCreateInvoice ==
    /\ route = "invoice/create" /\ pc = "invoice"
    /\ \/ /\ calls' = InvoiceRejected(calls)
          /\ Respond(ServerError("Failed to create invoice"))
       \/ \E id \in InvoiceIds : \E invoice \in ProviderInvoices(id) :
            /\ calls' = ResolveLast(calls, invoice)
            /\ Respond(JsonOk(201, InvoiceCreated(invoice, loc.customer)))
    /\ UNCHANGED <<route, req, loc>>

(***************************************************************************)
(* Invoice status: GET /api/desert-solutions/invoice/status?invoiceId=     *)
(***************************************************************************)
\* searchParams.get: None when the parameter is absent, else its text
IdParams(ids) == {None, Some("")} \cup {Some(i) : i \in ids}

\* !param: null or the empty string
ParamMissing(p) == p = None \/ p = Some("")

\* amountDue is the total whatever was paid
MutInvoiceStatus(invoice) ==
    [success |-> TRUE,
     invoice |-> [id |-> invoice.id, invoiceNumber |-> invoice.number,
                  total |-> invoice.total,
                  amountPaid |-> OrElse(invoice.paidAmount, 0),
                  amountDue |-> invoice.total,
                  customerId |-> invoice.customerId]]

\* lines 28-42: invoice.paidAmount || 0, invoice.total - (invoice.paidAmount || 0)
InvoiceStatus(invoice) ==
    LET amountPaid == IF IsSome(invoice.paidAmount) /\ invoice.paidAmount[1] # 0
                      THEN invoice.paidAmount[1] ELSE 0
    IN  [success |-> TRUE,
         invoice |-> [id |-> invoice.id, invoiceNumber |-> invoice.number,
                      total |-> invoice.total, amountPaid |-> amountPaid,
                      amountDue |-> FloatSub(invoice.total, amountPaid),
                      customerId |-> invoice.customerId]]

ReceiveInvoiceStatus ==
    /\ route = "idle"
    /\ \E p \in IdParams(InvoiceIds) : req' = [invoiceId |-> p]
    /\ route' = "invoice/status"
    /\ pc' = "start"
    /\ loc' = NoLoc
    /\ calls' = <<>>
    /\ resp' = NoResp

\* lines 14-26: the parameter check, then await invoices.get
InvoiceStatusGET ==
    /\ route = "invoice/status" /\ pc = "start"
    /\ IF ParamMissing(req.invoiceId)
       THEN /\ Respond(JsonError(400, "Missing invoiceId parameter"))
            /\ UNCHANGED calls
       ELSE /\ calls' = Append(calls, Call("invoices.get", req.invoiceId[1], 0))
            /\ pc' = "invoice"
            /\ UNCHANGED resp
    /\ UNCHANGED <<route, req, loc>>

\* invoices.get settles; lines 28-42
InvoiceStatusInvoice ==
    /\ route = "invoice/status" /\ pc = "invoice"
    /\ \/ /\ calls' = SettleLast(calls, "fail")
          /\ Respond(ServerError("Failed to fetch invoice status"))
       \/ \E invoice \in ProviderInvoices(req.invoiceId[1]) :
            /\ calls' = ResolveLast(calls, invoice)
            /\ Respond(JsonOk(200, InvoiceStatus(invoice)))
    /\ UNCHANGED <<route, req, loc>>

(***************************************************************************)
(* The product catalog and the photo catalog (lib/desert-solutions). The   *)
(* handlers only look products up; the catalog of the model holds two      *)
(* products, one of them with a variant, and photo sets for three.         *)
(***************************************************************************)
ProductIds == {"p1", "p2-r290"}
UnknownProductId == "zz"
VariantIds == {"p1-v"}

BasePrice(id) == IF id = "p1" THEN 50 ELSE 70

\* getProductById: the product, or None
getProductById(id) ==
    IF id \in ProductIds
    THEN Some([id |-> id, name |-> id, basePrice |-> BasePrice(id)])
    ELSE None

\* getProductWithVariant: the product with the variant applied, or None
getProductWithVariant(id, variantId) ==
    IF id \notin ProductIds THEN None
    ELSE IF variantId = None
         THEN Some([id |-> id, name |-> id, basePrice |-> BasePrice(id)])
         ELSE IF id = "p1" /\ variantId[1] \in VariantIds
              THEN Some([id |-> variantId[1], name |-> id, basePrice |-> BasePrice(id)])
              ELSE None

\* getProductPrice: the catalog price in a currency; 0 when there is none
getProductPrice(pricingId, currency) ==
    CASE pricingId = "p1" /\ currency = "USD" -> 50
      [] pricingId = "p1" /\ currency = "EUR" -> 45
      [] pricingId = "p1-v" /\ currency = "USD" -> 60
      [] pricingId = "p2-r290" /\ currency = "EUR" -> 65
      [] OTHER -> 0

\* getProductsByCategory / allProducts
ProductCategory(id) == IF id = "p1" THEN "cooling" ELSE "heating"

getProductsByCategory(category) ==
    {id \in ProductIds : ProductCategory(id) = category}

(***************************************************************************)
(* Quotation creation: POST /api/desert-solutions/quotation/create         *)
(***************************************************************************)
Item(productId, variantId, quantity, customPrice) ==
    [productId |-> productId, variantId |-> variantId,
     quantity |-> quantity, customPrice |-> customPrice]

ItemChoices ==
    {Item("p1", None, 1, None), Item("p1", Some("p1-v"), 2, None),
     Item("p1", None, 2, Some(0)), Item("p1", None, 1, Some(5)),
     Item("p2-r290", None, 3, None), Item("zz", None, 1, None),
     Item("zz", None, 1, Some(5)), Item("p1", None, 0, None),
     Item("p1", Some(""), 1, None)}

Currencies == {"USD", "EUR", "CNY"}

QuotationCreateBodies ==
    [items : SeqsUpTo(ItemChoices, MaxItems),
     currency : {None, Some("USD"), Some("EUR"), Some("GBP")}]

\* createQuotationSchema.parse: every quantity positive, currency in the enum
CreateQuotationSchemaOk(body) ==
    /\ \A i \in 1..Len(body.items) : body.items[i].quantity > 0
    /\ body.currency # None => body.currency[1] \in Currencies

\* the currency of the request is dropped
MutValidatedCurrency(body) == "USD"

\* validated.currency: .optional().default('USD')
ValidatedCurrency(body) == OrElse(body.currency, "USD")

\* a custom price of 0 counts as none
MutQuotationItem(item, index, currency) ==
    LET product == getProductById(item.productId)[1]
        pricingId == IF item.variantId \in {None, Some("")}
                     THEN item.productId ELSE item.variantId[1]
        price == getProductPrice(pricingId, currency)
        catalogPrice == IF price # 0 THEN price ELSE product.basePrice
        unitPrice == IF item.customPrice \in {None, Some(0)}
                     THEN catalogPrice ELSE item.customPrice[1]
    IN  [id |-> <<item.productId, index>>, name |-> product.name,
         quantity |-> item.quantity, unitPrice |-> unitPrice,
         totalPrice |-> unitPrice * item.quantity]

\* lines 72-89: one quotation item; index counts from 0.  `||` takes the
\* productId for a variantId that is absent or the empty string; `??` takes
\* the catalog price only for a customPrice that is absent
QuotationItem(item, index, currency) ==
    LET product == getProductById(item.productId)[1]
        pricingId == IF item.variantId \in {None, Some("")}
                     THEN item.productId ELSE item.variantId[1]
        price == getProductPrice(pricingId, currency)
        catalogPrice == IF price # 0 THEN price ELSE product.basePrice
        unitPrice == OrElse(item.customPrice, catalogPrice)
    IN  [id |-> <<item.productId, index>>, name |-> product.name,
         quantity |-> item.quantity, unitPrice |-> unitPrice,
         totalPrice |-> unitPrice * item.quantity]

\* lines 66-70: the map throws at an item whose product is not in the catalog
ItemsThrow(items) ==
    \E i \in 1..Len(items) : getProductById(items[i].productId) = None

QuotationItems(items, currency) ==
    [i \in 1..Len(items) |-> QuotationItem(items[i], i - 1, currency)]

\* the record handed to dbClient.desertSolutions.createQuotation
QuotationRecord(body) ==
    [quotationNumber |-> "QDS-1",
     items |-> QuotationItems(body.items, ValidatedCurrency(body)),
     currency |-> ValidatedCurrency(body),
     status |-> "draft"]

\* what createQuotation may resolve to
DbCreateResults(record) ==
    {[success |-> TRUE, quotation |-> Some(record)],
     [success |-> FALSE, quotation |-> None]}

\* a quotation without items is stored before the error is answered
MutProductNotFound(cs, body) ==
    Append(cs, Call("createQuotation",
                    [quotationNumber |-> "QDS-1", items |-> <<>>,
                     currency |-> ValidatedCurrency(body), status |-> "draft"], 0))

\* lines 68-70, 160-173: the throw leaves items.map before line 129 is
\* reached and the catch block makes no call
ProductNotFound(cs, body) == cs

ReceiveQuotationCreate ==
    /\ route = "idle"
    /\ \E r \in JsonRequests(QuotationCreateBodies) : req' = r
    /\ route' = "quotation/create"
    /\ pc' = "start"
    /\ loc' = NoLoc
    /\ calls' = <<>>
    /\ resp' = NoResp

\* lines 60-153: req.json(), the schema, the items, then await createQuotation
QuotationCreatePOST ==
    /\ route = "quotation/create" /\ pc = "start"
    /\ IF ~req.json
       THEN /\ Respond(ServerError("Failed to create quotation"))
            /\ UNCHANGED calls
       ELSE IF ~CreateQuotationSchemaOk(req.body)
       THEN /\ Respond(ZodError("Invalid request data"))
            /\ UNCHANGED calls
       ELSE IF ItemsThrow(req.body.items)
       THEN \* throw new Error(`Product not found: ...`) lands in the catch block
            /\ Respond(ServerError("Failed to create quotation"))
            /\ calls' = ProductNotFound(calls, req.body)
       ELSE /\ calls' = Append(calls, Call("createQuotation",
                                           QuotationRecord(req.body), 0))
            /\ pc' = "store"
            /\ UNCHANGED resp
    /\ UNCHANGED <<route, req, loc>>

\* createQuotation settles; lines 155-158
QuotationCreateStored ==
    /\ route = "quotation/create" /\ pc = "store"
    /\ \/ /\ calls' = SettleLast(calls, "fail")
          /\ Respond(ServerError("Failed to create quotation"))
       \/ \E storedResult \in DbCreateResults(calls[Len(calls)].arg) :
            /\ calls' = ResolveLast(calls, storedResult)
            /\ Respond(JsonOk(201, [success |-> TRUE,
                                    quotation |-> storedResult.quotation]))
    /\ UNCHANGED <<route, req, loc>>

(***************************************************************************)
(* Quotation lookup: GET /api/desert-solutions/quotation/get?id=           *)
(***************************************************************************)
QuotationIds == {"q1"}

\* the customers a stored quotation may carry (customer or customerData)
StoredCustomers ==
    {None, Some([name |-> "Ann Lee", email |-> None]),
     Some([name |-> "Ann Lee", email |-> Some("a@x")])}

StoredQuotations ==
    [quotationNumber : {"QDS-7"}, customer : StoredCustomers]

\* what getQuotation may resolve to
DbGetResults ==
    {[success |-> FALSE, quotation |-> None], [success |-> TRUE, quotation |-> None]}
      \cup {[success |-> ok, quotation |-> Some(q)] :
               ok \in BOOLEAN, q \in StoredQuotations}

\* the success flag is not looked at
MutQuotationNotFound(result) == result.quotation = None

\* !result.success || !result.quotation
QuotationNotFound(result) == ~result.success \/ result.quotation = None

ReceiveQuotationGet ==
    /\ route = "idle"
    /\ \E p \in IdParams(QuotationIds) : req' = [id |-> p]
    /\ route' = "quotation/get"
    /\ pc' = "start"
    /\ loc' = NoLoc
    /\ calls' = <<>>
    /\ resp' = NoResp

\* lines 11-24: the parameter check, then await getQuotation
QuotationGetGET ==
    /\ route = "quotation/get" /\ pc = "start"
    /\ IF ParamMissing(req.id)
       THEN /\ Respond(JsonError(400, "Missing quotation ID parameter"))
            /\ UNCHANGED calls
       ELSE /\ calls' = Append(calls, Call("getQuotation", req.id[1], 0))
            /\ pc' = "quotation"
            /\ UNCHANGED resp
    /\ UNCHANGED <<route, req, loc>>

\* getQuotation settles; lines 26-36
QuotationGetResult ==
    /\ route = "quotation/get" /\ pc = "quotation"
    /\ \/ /\ calls' = SettleLast(calls, "fail")
          /\ Respond(ServerError("Failed to fetch quotation"))
       \/ \E result \in DbGetResults :
            /\ calls' = ResolveLast(calls, result)
            /\ Respond(IF QuotationNotFound(result)
                       THEN JsonError(404, "Quotation not found")
                       ELSE JsonOk(200, [success |-> TRUE,
                                         quotation |-> result.quotation[1]]))
    /\ UNCHANGED <<route, req, loc>>

(***************************************************************************)
(* Product lookup: GET /api/desert-solutions/products/get?id=&variantId=   *)
(***************************************************************************)
ReceiveProductsGet ==
    /\ route = "idle"
    /\ \E p \in IdParams(ProductIds \cup {UnknownProductId}) :
       \E v \in {None} \cup {Some(x) : x \in VariantIds} :
         req' = [id |-> p, variantId |-> v]
    /\ route' = "products/get"
    /\ pc' = "start"
    /\ loc' = NoLoc
    /\ calls' = <<>>
    /\ resp' = NoResp

\* lines 11-35; nothing is awaited
\* every request is looked up without a variant
MutVariantIdParam(param) == None

\* line 14: searchParams.get('variantId') ?? undefined; an absent parameter
\* (None) stays absent, a given one is handed on as it is
VariantIdParam(param) == param

\* lines 12-35; loc keeps the handler's variables: looked is empty until
\* getProductWithVariant was called and then holds what it returned
ProductsGetGET ==
    /\ route = "products/get" /\ pc = "start"
    /\ LET variantId == VariantIdParam(req.variantId)
       IN  IF ParamMissing(req.id)
           THEN /\ loc' = [variantId |-> variantId, looked |-> None]
                /\ Respond(JsonError(400, "Missing product ID parameter"))
           ELSE \E product \in {getProductWithVariant(req.id[1], variantId)} :
                  /\ loc' = [variantId |-> variantId, looked |-> Some(product)]
                  /\ Respond(IF product = None
                             THEN JsonError(404, "Product not found")
                             ELSE JsonOk(200, [success |-> TRUE,
                                               product |-> product[1]]))
    /\ UNCHANGED <<route, req, calls>>

(***************************************************************************)
(* Product list: GET /api/desert-solutions/products/list?category=         *)
(***************************************************************************)
ReceiveProductsList ==
    /\ route = "idle"
    /\ \E c \in {None, Some(""), Some("cooling"), Some("nothing")} :
         req' = [category |-> c]
    /\ route' = "products/list"
    /\ pc' = "start"
    /\ loc' = NoLoc
    /\ calls' = <<>>
    /\ resp' = NoResp

\* products/get/route.ts lines 56-78; nothing is awaited
ProductsListGET ==
    /\ route = "products/list" /\ pc = "start"
    /\ LET products == IF ParamMissing(req.category) THEN ProductIds
                       ELSE getProductsByCategory(req.category[1])
       IN  Respond(JsonOk(200, [success |-> TRUE, count |-> Cardinality(products),
                                products |-> products]))
    /\ UNCHANGED <<route, req, loc, calls>>

(***************************************************************************)
(* Quotation PDF: POST /api/desert-solutions/quotation/pdf                 *)
(***************************************************************************)
\* parsed bodies: JSON null, a quotation lacking a required field, a full one
QuotationPdfBodies == {"null", "incomplete", "complete"}

ReceiveQuotationPdf ==
    /\ route = "idle"
    /\ \E r \in JsonRequests(QuotationPdfBodies) : req' = r
    /\ route' = "quotation/pdf"
    /\ pc' = "start"
    /\ loc' = NoLoc
    /\ calls' = <<>>
    /\ resp' = NoResp

\* lines 19-33: req.json(), the field check, then await renderToBuffer
QuotationPdfPOST ==
    /\ route = "quotation/pdf" /\ pc = "start"
    /\ IF ~req.json \/ req.body = "null"
       THEN \* req.json() rejects, or quotation.quotationNumber reads null
            /\ Respond(ServerError("Failed to generate PDF"))
            /\ UNCHANGED calls
       ELSE IF req.body = "incomplete"
       THEN /\ Respond(JsonError(400, "Invalid quotation data"))
            /\ UNCHANGED calls
       ELSE /\ calls' = Append(calls, Call("renderToBuffer", "QuotationPDF", 0))
            /\ pc' = "render"
            /\ UNCHANGED resp
    /\ UNCHANGED <<route, req, loc>>

\* renderToBuffer settles; lines 35-43
QuotationPdfRendered ==
    /\ route = "quotation/pdf" /\ pc = "render"
    /\ \E st \in Outcomes :
         /\ calls' = SettleLast(calls, st)
         /\ Respond(IF st = "ok" THEN Pdf("QuotationPDF")
                    ELSE ServerError("Failed to generate PDF"))
    /\ UNCHANGED <<route, req, loc>>

(***************************************************************************)
(* The photo catalog: getPhotosByProductId gives a product's photo set.    *)
(***************************************************************************)
Photo(s3Key, type, isActualModel) ==
    [s3Key |-> s3Key, type |-> type, isActualModel |-> isActualModel]

PhotoSetIds == {"p1", "p2", "p3"}

PhotosOf(id) ==
    CASE id = "p1" -> <<Photo("k1", "product_overview", TRUE),
                        Photo("k2", "detail", FALSE)>>
      [] id = "p2" -> <<Photo("k3", "installation", TRUE)>>
      [] id = "p3" -> <<Photo("k4", "detail", TRUE),
                        Photo("k5", "product_overview", TRUE),
                        Photo("k6", "detail", TRUE)>>

getPhotosByProductId(id) ==
    IF id \in PhotoSetIds
    THEN Some([productId |-> id, productName |-> id, photos |-> PhotosOf(id)])
    ELSE None

(***************************************************************************)
(* Product photos: GET /api/desert-solutions/photos/[productId]            *)
(***************************************************************************)
PhotoTypes == {"product_overview", "detail", "installation", "all"}

PhotosRequests ==
    [productId : {"p1", "p3", "zz"},
     type : {None, Some("detail"), Some("bogus")},
     actualModelOnly : {None, Some("true"), Some("false")},
     expiresIn : {None, Some(""), Some("60")}]

\* url.searchParams.get('type') || 'all'
TypeParam(r) == IF ParamMissing(r.type) THEN "all" ELSE r.type[1]

\* querySchema.parse: type is in the enum; actualModelOnly and expiresIn are
\* z.string().optional(), which takes a string or undefined, and
\* searchParams.get gives null for an absent parameter
QuerySchemaOk(r) ==
    /\ TypeParam(r) \in PhotoTypes
    /\ r.actualModelOnly # None
    /\ r.expiresIn # None

\* v ? parseInt(v, 10) : 3600
ExpiresIn(r) == IF r.expiresIn[1] = "" THEN 3600 ELSE 60

\* lines 57-65: the photos the query asks for
FilteredPhotos(r, photoSet) ==
    LET OfType(p) == TypeParam(r) # "all" => p.type = TypeParam(r)
        Actual(p) == r.actualModelOnly[1] = "true" => p.isActualModel
    IN  SelectSeq(SelectSeq(photoSet.photos, OfType), Actual)

\* what getPresignedUrl may resolve to: a URL of the key, signed either way
SignedUrls(s3Key) == {<<s3Key, "sigA">>, <<s3Key, "sigB">>}

\* Promise.all: the result of the i-th promise goes to the i-th place
MutStoreResult(results, i, value) == Append(results, Some(value))

StoreResult(results, i, value) == [results EXCEPT ![i] = Some(value)]

\* the array Promise.all resolves to
PhotosWithUrls(results) ==
    LET resolved == SelectSeq(results, IsSome)
    IN  [j \in 1..Len(resolved) |-> resolved[j][1]]

\* lines 79-86
PhotosResponse(photoSet, photosWithUrls) ==
    [productId |-> photoSet.productId, productName |-> photoSet.productName,
     photoCount |-> Len(photosWithUrls), photos |-> photosWithUrls]

ReceivePhotos ==
    /\ route = "idle"
    /\ \E r \in PhotosRequests : req' = r
    /\ route' = "photos"
    /\ pc' = "start"
    /\ loc' = [photos |-> <<>>, results |-> <<>>, order |-> <<>>]
    /\ calls' = <<>>
    /\ resp' = NoResp

\* lines 32-77: the schema, the lookup, the filter, and one getPresignedUrl
\* call per photo, all made before the handler awaits Promise.all
PhotosGET ==
    /\ route = "photos" /\ pc = "start"
    /\ LET photoSet == getPhotosByProductId(req.productId)
           photos == FilteredPhotos(req, photoSet[1])
       IN
       IF ~QuerySchemaOk(req)
       THEN /\ Respond(ZodError("Invalid query parameters"))
            /\ UNCHANGED <<calls, loc>>
       ELSE IF photoSet = None
       THEN /\ Respond(JsonError(404, "Product not found"))
            /\ UNCHANGED <<calls, loc>>
       ELSE IF photos = <<>>
       THEN /\ Respond(JsonOk(200, PhotosResponse(photoSet[1], <<>>)))
            /\ UNCHANGED <<calls, loc>>
       ELSE /\ calls' = [i \in 1..Len(photos) |->
                           Call("getPresignedUrl",
                                [s3Key |-> photos[i].s3Key,
                                 expiresIn |-> ExpiresIn(req)], i)]
            /\ loc' = [photos |-> photos,
                       results |-> [i \in 1..Len(photos) |-> None],
                       order |-> <<>>]
            /\ pc' = "urls"
            /\ UNCHANGED resp
    /\ UNCHANGED <<route, req>>

\* one getPresignedUrl promise settles, in any order; Promise.all rejects at
\* the first rejection and resolves once every promise has resolved
PhotosUrlSettled ==
    /\ route = "photos" /\ pc = "urls"
    /\ \E i \in 1..Len(calls) :
         /\ calls[i].st = "pending"
         /\ \/ /\ calls' = Settle(calls, i, "fail")
               /\ Respond(ServerError("Failed to fetch photos"))
               /\ UNCHANGED loc
            \/ \E signedUrl \in SignedUrls(calls[i].arg.s3Key) :
                 LET value == [photo |-> loc.photos[i], signedUrl |-> signedUrl,
                               expiresIn |-> ExpiresIn(req)]
                     results == StoreResult(loc.results, i, value)
                     settled == Resolve(calls, i, signedUrl)
                 IN  /\ calls' = settled
                     /\ loc' = [loc EXCEPT !.results = results,
                                            !.order = Append(@, i)]
                     /\ IF \A j \in 1..Len(settled) : settled[j].st = "ok"
                        THEN Respond(JsonOk(200,
                               PhotosResponse(getPhotosByProductId(req.productId)[1],
                                              PhotosWithUrls(results))))
                        ELSE UNCHANGED <<pc, resp>>
    /\ UNCHANGED <<route, req>>

(***************************************************************************)
(* fetchImageAsDataUrl: getFile's rejection and a file without a body both *)
(* give null; the error is logged and not rethrown.                        *)
(***************************************************************************)
FileOutcomes == {"body", "nobody", "fail"}

\* how the getFile call settled
FileSettled(outcome) == IF outcome = "fail" THEN "fail" ELSE "ok"

\* the data URL, or None for null
ImageDataUrl(s3Key, outcome) ==
    IF outcome = "body" THEN Some(<<"data", s3Key>>) ELSE None

(***************************************************************************)
(* Datasheet: POST /api/desert-solutions/datasheet                         *)
(***************************************************************************)
Languages == {"en", "nl"}

RequestCustomers ==
    {None, Some([name |-> "Ann Lee", email |-> "a@x"]),
     Some([name |-> "Ann Lee", email |-> "not-an-email"])}

DatasheetBodies ==
    [productId : ProductIds \cup {UnknownProductId},
     variantId : {None} \cup {Some(v) : v \in VariantIds},
     customer : RequestCustomers,
     language : {None, Some("nl")},
     languages : {None} \cup {Some(l) : l \in SeqsUpTo(Languages, MaxItems)},
     returnPdf : {None, Some(TRUE)}]

\* datasheetSchema.parse: a customer, when given, has an e-mail address
DatasheetSchemaOk(body) ==
    body.customer # None => IsEmail(body.customer[1].email)

\* productId.replace('-r407c', '').replace('-r290', '')
StripRefrigerant(productId) ==
    IF productId = "p2-r290" THEN "p2" ELSE productId

\* lines 133-135
DatasheetProduct(body) ==
    IF body.variantId # None
    THEN getProductWithVariant(body.productId, body.variantId)
    ELSE getProductById(body.productId)

\* line 174: languages && languages.length > 0 ? languages : [language]
LangsToGenerate(body) ==
    IF body.languages # None /\ body.languages[1] # <<>>
    THEN body.languages[1]
    ELSE <<OrElse(body.language, "en")>>

\* the photos whose images the datasheet embeds: the first two of the set
DatasheetPhotos(body) ==
    LET photoSet == getPhotosByProductId(StripRefrigerant(body.productId))
    IN  IF photoSet = None THEN <<>>
        ELSE IF Len(photoSet[1].photos) > 2
             THEN SubSeq(photoSet[1].photos, 1, 2)
             ELSE photoSet[1].photos

RenderCall(lang, item) == Call("renderToBuffer", [language |-> lang], item)

\* a rejected getFile is tried once more
MutDatasheetFetchRetry(cs, n) ==
    IF /\ Len(cs) = 1
       /\ cs[1].st = "fail"
    THEN /\ calls' = Append(cs, Call("getFile", cs[1].arg, cs[1].item))
         /\ pc' = "image"
         /\ UNCHANGED resp
    ELSE IF n <= Len(DatasheetPhotos(req.body))
    THEN /\ calls' = Append(cs, Call("getFile", DatasheetPhotos(req.body)[n].s3Key, n))
         /\ pc' = "image"
         /\ UNCHANGED resp
    ELSE /\ calls' = Append(cs, RenderCall(LangsToGenerate(req.body)[1], 1))
         /\ pc' = "render"
         /\ UNCHANGED resp

\* the first of the remaining image fetches, or the renders
DatasheetFetchOrRender(cs, n) ==
    IF n <= Len(DatasheetPhotos(req.body))
    THEN /\ calls' = Append(cs, Call("getFile", DatasheetPhotos(req.body)[n].s3Key, n))
         /\ pc' = "image"
         /\ UNCHANGED resp
    ELSE /\ calls' = Append(cs, RenderCall(LangsToGenerate(req.body)[1], 1))
         /\ pc' = "render"
         /\ UNCHANGED resp

\* lines 186-196: the PDF answer
MutDatasheetPdf(pdfBuffers) == Pdf(pdfBuffers[Len(pdfBuffers)])

DatasheetPdf(pdfBuffers) == Pdf(pdfBuffers[1])

\* lines 296-302
DatasheetAttachments(pdfBuffers) ==
    [i \in 1..Len(pdfBuffers) |->
       [filename |-> IF Len(pdfBuffers) > 1
                     THEN <<"datasheet", pdfBuffers[i].lang>>
                     ELSE <<"datasheet">>,
        content |-> pdfBuffers[i]]]

ReceiveDatasheet ==
    /\ route = "idle"
    /\ \E r \in JsonRequests(DatasheetBodies) : req' = r
    /\ route' = "datasheet"
    /\ pc' = "start"
    /\ loc' = [images |-> <<>>, pdfBuffers |-> <<>>]
    /\ calls' = <<>>
    /\ resp' = NoResp

\* lines 127-163 up to the first await
DatasheetPOST ==
    /\ route = "datasheet" /\ pc = "start"
    /\ IF ~req.json
       THEN /\ Respond(ServerError("Failed to generate datasheet"))
            /\ UNCHANGED calls
       ELSE IF ~DatasheetSchemaOk(req.body)
       THEN /\ Respond(ZodError("Invalid request data"))
            /\ UNCHANGED calls
       ELSE IF DatasheetProduct(req.body) = None
       THEN /\ Respond(JsonError(404, "Product not found"))
            /\ UNCHANGED calls
       ELSE DatasheetFetchOrRender(calls, 1)
    /\ UNCHANGED <<route, req, loc>>

\* a getFile settles; the next image is fetched, or the first PDF rendered
DatasheetImage ==
    /\ route = "datasheet" /\ pc = "image"
    /\ \E outcome \in FileOutcomes :
         LET n == calls[Len(calls)].item
         IN  /\ loc' = [loc EXCEPT !.images =
                          Append(@, ImageDataUrl(calls[Len(calls)].arg, outcome))]
             /\ DatasheetFetchOrRender(SettleLast(calls, FileSettled(outcome)), n + 1)
    /\ UNCHANGED <<route, req>>

\* a renderToBuffer settles: lines 178-204 and 296-314
DatasheetRendered ==
    /\ route = "datasheet" /\ pc = "render"
    /\ LET langs == LangsToGenerate(req.body)
           n == calls[Len(calls)].item
           pdfBuffers == Append(loc.pdfBuffers,
                                [lang |-> langs[n], images |-> loc.images])
       IN
       \/ /\ calls' = SettleLast(calls, "fail")
          /\ Respond(ServerError("Failed to generate datasheet"))
          /\ UNCHANGED loc
       \/ /\ loc' = [loc EXCEPT !.pdfBuffers = pdfBuffers]
          /\ IF n < Len(langs)
             THEN /\ calls' = Append(SettleLast(calls, "ok"),
                                     RenderCall(langs[n + 1], n + 1))
                  /\ UNCHANGED <<pc, resp>>
             ELSE IF OrElse(req.body.returnPdf, FALSE)
             THEN /\ calls' = SettleLast(calls, "ok")
                  /\ Respond(DatasheetPdf(pdfBuffers))
             ELSE IF req.body.customer = None
             THEN /\ calls' = SettleLast(calls, "ok")
                  /\ Respond(JsonError(400,
                       "Customer email is required when returnPdf is false"))
             ELSE /\ calls' = Append(SettleLast(calls, "ok"),
                                     Call("sendEmail",
                                          [to |-> req.body.customer[1].email,
                                           subject |-> "Product Datasheet",
                                           attachments |-> DatasheetAttachments(pdfBuffers)],
                                          0))
                  /\ pc' = "email"
                  /\ UNCHANGED resp
    /\ UNCHANGED <<route, req>>

\* sendEmail settles; lines 316-328
DatasheetEmail ==
    /\ route = "datasheet" /\ pc = "email"
    /\ \E st \in Outcomes :
         /\ calls' = SettleLast(calls, st)
         /\ Respond(IF st = "ok"
                    THEN JsonOk(200, [success |-> TRUE,
                                      recipient |-> req.body.customer[1].email,
                                      languages |-> LangsToGenerate(req.body),
                                      attachments |-> Len(loc.pdfBuffers)])
                    ELSE ServerError("Failed to generate datasheet"))
    /\ UNCHANGED <<route, req, loc>>

(***************************************************************************)
(* Quotation e-mail: POST /api/desert-solutions/quotation/email            *)
(***************************************************************************)
\* a quotation sent inline: with a customer, or with neither customer nor
\* customerData
InlineQuotations ==
    {[quotationNumber |-> "QDS-7", customer |-> None],
     [quotationNumber |-> "QDS-7",
      customer |-> Some([name |-> "Ann Lee", email |-> Some("a@x")])]}

QuotationEmailBodies ==
    [quotationId : {None} \cup {Some(q) : q \in QuotationIds},
     quotation : {None} \cup {Some(q) : q \in InlineQuotations},
     attachPDF : {None, Some(FALSE)}]

\* emailQuotationSchema.parse: the two refinements
EmailQuotationSchemaOk(body) ==
    /\ body.quotationId # None \/ body.quotation # None
    /\ body.quotation # None => body.quotation[1].customer # None

\* lines 76-252 up to the next await, for the quotation in hand
EmailCompose(cs, quotation) ==
    IF quotation.customer = None
    THEN /\ calls' = cs
         /\ Respond(JsonError(400, "Customer data not available"))
    ELSE IF req.body.attachPDF # Some(FALSE)
    THEN /\ calls' = Append(cs, Call("renderToBuffer", "QuotationPDF", 0))
         /\ pc' = "render"
         /\ UNCHANGED resp
    ELSE /\ calls' = Append(cs, Call("sendEmail",
                                     [to |-> quotation.customer[1].email,
                                      subject |-> "Quotation",
                                      attachments |-> <<>>], 0))
         /\ pc' = "email"
         /\ UNCHANGED resp

ReceiveQuotationEmail ==
    /\ route = "idle"
    /\ \E r \in JsonRequests(QuotationEmailBodies) : req' = r
    /\ route' = "quotation/email"
    /\ pc' = "start"
    /\ loc' = [quotation |-> None]
    /\ calls' = <<>>
    /\ resp' = NoResp

\* lines 48-57: req.json(), the schema, then the lookup or the e-mail
QuotationEmailPOST ==
    /\ route = "quotation/email" /\ pc = "start"
    /\ IF ~req.json
       THEN /\ Respond(ServerError("Failed to send email"))
            /\ UNCHANGED <<calls, loc>>
       ELSE IF ~EmailQuotationSchemaOk(req.body)
       THEN /\ Respond(ZodError("Invalid request data"))
            /\ UNCHANGED <<calls, loc>>
       ELSE IF req.body.quotationId # None /\ req.body.quotation = None
       THEN /\ calls' = Append(calls, Call("getQuotation", req.body.quotationId[1], 0))
            /\ pc' = "quotation"
            /\ UNCHANGED <<resp, loc>>
       ELSE /\ loc' = [loc EXCEPT !.quotation = req.body.quotation]
            /\ EmailCompose(calls, req.body.quotation[1])
    /\ UNCHANGED <<route, req>>

\* getQuotation settles; lines 59-67
QuotationEmailQuotation ==
    /\ route = "quotation/email" /\ pc = "quotation"
    /\ \/ /\ calls' = SettleLast(calls, "fail")
          /\ Respond(ServerError("Failed to send email"))
          /\ UNCHANGED loc
       \/ \E result \in DbGetResults :
            IF QuotationNotFound(result)
            THEN /\ calls' = ResolveLast(calls, result)
                 /\ Respond(JsonError(404, "Quotation not found"))
                 /\ UNCHANGED loc
            ELSE /\ loc' = [loc EXCEPT !.quotation = result.quotation]
                 /\ EmailCompose(ResolveLast(calls, result), result.quotation[1])
    /\ UNCHANGED <<route, req>>

\* renderToBuffer settles; lines 236-252
QuotationEmailRendered ==
    /\ route = "quotation/email" /\ pc = "render"
    /\ \/ /\ calls' = SettleLast(calls, "fail")
          /\ Respond(ServerError("Failed to send email"))
       \/ /\ calls' = Append(SettleLast(calls, "ok"),
                             Call("sendEmail",
                                  [to |-> loc.quotation[1].customer[1].email,
                                   subject |-> "Quotation",
                                   attachments |-> <<"QuotationPDF">>], 0))
          /\ pc' = "email"
          /\ UNCHANGED resp
    /\ UNCHANGED <<route, req, loc>>

\* sendEmail settles; lines 254-258
QuotationEmailSent ==
    /\ route = "quotation/email" /\ pc = "email"
    /\ \E st \in Outcomes :
         /\ calls' = SettleLast(calls, st)
         /\ Respond(IF st = "ok"
                    THEN JsonOk(200, [success |-> TRUE,
                                      recipient |-> loc.quotation[1].customer[1].email])
                    ELSE ServerError("Failed to send email"))
    /\ UNCHANGED <<route, req, loc>>

(***************************************************************************)
(* Photo addendum: POST /api/desert-solutions/quotation/photo-addendum     *)
(***************************************************************************)
IncludePhotos(productOverview, detail, installation, actualModelOnly) ==
    [productOverview |-> productOverview, detail |-> detail,
     installation |-> installation, actualModelOnly |-> actualModelOnly]

PhotoAddendumBodies ==
    [quotationId : {None} \cup {Some(q) : q \in QuotationIds},
     quotationNumber : {None, Some("QDS-7")},
     productIds : SeqsUpTo({"p1", "p2", "zz"}, MaxItems),
     customer : {None, Some([name |-> "Ann Lee", email |-> Some("a@x")])},
     includePhotos : {None, Some(IncludePhotos(TRUE, FALSE, TRUE, FALSE)),
                      Some(IncludePhotos(TRUE, TRUE, TRUE, TRUE))}]

\* photoAddendumSchema.parse: productIds.min(1) and the refinement
PhotoAddendumSchemaOk(body) ==
    /\ Len(body.productIds) >= 1
    /\ body.quotationId # None \/ body.quotationNumber # None \/ body.customer # None

\* lines 115-125: the photos of one product the request includes
IncludedPhotos(body, photos) ==
    LET Included(p) ==
          \/ body.includePhotos = None
          \/ /\ body.includePhotos[1].actualModelOnly => p.isActualModel
             /\ p.type = "product_overview" => body.includePhotos[1].productOverview
             /\ p.type = "detail" => body.includePhotos[1].detail
             /\ p.type = "installation" => body.includePhotos[1].installation
    IN  SelectSeq(photos, Included)

\* lines 107-139: the images the two loops fetch, in order; a product
\* without a photo set is skipped
RECURSIVE AddendumWork(_, _, _)
AddendumWork(body, productIds, n) ==
    IF n > Len(productIds) THEN <<>>
    ELSE LET photoSet == getPhotosByProductId(productIds[n])
             photos == IF photoSet = None THEN <<>>
                       ELSE IncludedPhotos(body, photoSet[1].photos)
         IN  [i \in 1..Len(photos) |-> [product |-> n, photo |-> photos[i]]]
               \o AddendumWork(body, productIds, n + 1)

\* lines 141-149: the products that have at least one fetched image
ProductsWithPhotos(body, work, fetched) ==
    LET Count(n) == Cardinality({i \in 1..Len(work) :
                                   work[i].product = n /\ fetched[i] # None})
        products == [n \in 1..Len(body.productIds) |->
                       [productId |-> body.productIds[n], photoCount |-> Count(n)]]
    IN  SelectSeq(products, LAMBDA p : p.photoCount > 0)

RECURSIVE PhotosFrom(_, _)
PhotosFrom(products, n) ==
    IF n > Len(products) THEN 0
    ELSE products[n].photoCount + PhotosFrom(products, n + 1)

TotalPhotos(products) == PhotosFrom(products, 1)

\* lines 97-174 from the customer check to the next await
AddendumFetchOrRender(cs, customer, fetched) ==
    LET work == AddendumWork(req.body, req.body.productIds, 1)
        n == Len(fetched) + 1
    IN  IF customer = None \/ customer[1].email = None
        THEN /\ calls' = cs
             /\ Respond(JsonError(400, "Customer email is required"))
        ELSE IF n <= Len(work)
        THEN /\ calls' = Append(cs, Call("getFile", work[n].photo.s3Key, n))
             /\ pc' = "image"
             /\ UNCHANGED resp
        ELSE IF ProductsWithPhotos(req.body, work, fetched) = <<>>
        THEN /\ calls' = cs
             /\ Respond(JsonError(404, "No photos found for the specified products"))
        ELSE /\ calls' = Append(cs, Call("renderToBuffer", "PhotoAddendumPDF", 0))
             /\ pc' = "render"
             /\ UNCHANGED resp

ReceivePhotoAddendum ==
    /\ route = "idle"
    /\ \E r \in JsonRequests(PhotoAddendumBodies) : req' = r
    /\ route' = "photo-addendum"
    /\ pc' = "start"
    /\ loc' = [customer |-> None, quotationNumber |-> None, fetched |-> <<>>]
    /\ calls' = <<>>
    /\ resp' = NoResp

\* lines 73-83: req.json(), the schema, then the lookup or the images
PhotoAddendumPOST ==
    /\ route = "photo-addendum" /\ pc = "start"
    /\ IF ~req.json
       THEN /\ Respond(ServerError("Failed to send photo addendum email"))
            /\ UNCHANGED <<calls, loc>>
       ELSE IF ~PhotoAddendumSchemaOk(req.body)
       THEN /\ Respond(ZodError("Invalid request data"))
            /\ UNCHANGED <<calls, loc>>
       ELSE IF req.body.quotationId # None /\ req.body.customer = None
       THEN /\ calls' = Append(calls, Call("getQuotation", req.body.quotationId[1], 0))
            /\ pc' = "quotation"
            /\ UNCHANGED <<resp, loc>>
       ELSE /\ loc' = [loc EXCEPT !.customer = req.body.customer,
                                  !.quotationNumber = req.body.quotationNumber]
            /\ AddendumFetchOrRender(calls, req.body.customer, <<>>)
    /\ UNCHANGED <<route, req>>

\* getQuotation settles; lines 85-95
PhotoAddendumQuotation ==
    /\ route = "photo-addendum" /\ pc = "quotation"
    /\ \/ /\ calls' = SettleLast(calls, "fail")
          /\ Respond(ServerError("Failed to send photo addendum email"))
          /\ UNCHANGED loc
       \/ \E result \in DbGetResults :
            IF QuotationNotFound(result)
            THEN /\ calls' = ResolveLast(calls, result)
                 /\ Respond(JsonError(404, "Quotation not found"))
                 /\ UNCHANGED loc
            ELSE /\ loc' = [loc EXCEPT
                              !.customer = result.quotation[1].customer,
                              !.quotationNumber = Some(result.quotation[1].quotationNumber)]
                 /\ AddendumFetchOrRender(ResolveLast(calls, result),
                                          result.quotation[1].customer, <<>>)
    /\ UNCHANGED <<route, req>>

\* a getFile settles; lines 130-138, then the next image or the PDF
PhotoAddendumImage ==
    /\ route = "photo-addendum" /\ pc = "image"
    /\ \E outcome \in FileOutcomes :
         LET fetched == Append(loc.fetched,
                               ImageDataUrl(calls[Len(calls)].arg, outcome))
         IN  /\ loc' = [loc EXCEPT !.fetched = fetched]
             /\ AddendumFetchOrRender(SettleLast(calls, FileSettled(outcome)),
                                      loc.customer, fetched)
    /\ UNCHANGED <<route, req>>

\* renderToBuffer settles; lines 176-279
PhotoAddendumRendered ==
    /\ route = "photo-addendum" /\ pc = "render"
    /\ \/ /\ calls' = SettleLast(calls, "fail")
          /\ Respond(ServerError("Failed to send photo addendum email"))
       \/ /\ calls' = Append(SettleLast(calls, "ok"),
                             Call("sendEmail",
                                  [to |-> loc.customer[1].email,
                                   subject |-> "Product Photos",
                                   attachments |-> <<"PhotoAddendumPDF">>], 0))
          /\ pc' = "email"
          /\ UNCHANGED resp
    /\ UNCHANGED <<route, req, loc>>

\* sendEmail settles; lines 281-292
PhotoAddendumSent ==
    /\ route = "photo-addendum" /\ pc = "email"
    /\ \E st \in Outcomes, work \in {AddendumWork(req.body, req.body.productIds, 1)} :
         /\ calls' = SettleLast(calls, st)
         /\ Respond(IF st = "ok"
                    THEN LET products ==
                               ProductsWithPhotos(req.body, work, loc.fetched)
                         IN  JsonOk(200, [success |-> TRUE,
                                          recipient |-> loc.customer[1].email,
                                          quotationNumber |-> loc.quotationNumber,
                                          products |-> products,
                                          totalPhotos |-> TotalPhotos(products)])
                    ELSE ServerError("Failed to send photo addendum email"))
    /\ UNCHANGED <<route, req, loc>>

(***************************************************************************)
(* The response leaves; nothing of the request is kept.                    *)
(***************************************************************************)
Finish ==
    /\ pc = "done"
    /\ route' = "idle"
    /\ req' = NoReq
    /\ pc' = "idle"
    /\ loc' = NoLoc
    /\ calls' = <<>>
    /\ resp' = NoResp

Init ==
    /\ route = "idle"
    /\ req = NoReq
    /\ pc = "idle"
    /\ loc = NoLoc
    /\ calls = <<>>
    /\ resp = NoResp

Next ==
    \/ ReceiveWebhook
    \/ WebhookPOST
    \/ WebhookVerify
    \/ WebhookInvoice
    \/ WebhookCustomer
    \/ WebhookEmail
    \/ ReceiveInvoiceCreate
    \/ InvoiceCreatePOST
    \/ InvoiceCreateCustomer
    \/ InvoiceCreateInvoice
    \/ ReceiveInvoiceStatus
    \/ InvoiceStatusGET
    \/ InvoiceStatusInvoice
    \/ ReceiveQuotationCreate
    \/ QuotationCreatePOST
    \/ QuotationCreateStored
    \/ ReceiveQuotationGet
    \/ QuotationGetGET
    \/ QuotationGetResult
    \/ ReceiveProductsGet
    \/ ProductsGetGET
    \/ ReceiveProductsList
    \/ ProductsListGET
    \/ ReceiveQuotationPdf
    \/ QuotationPdfPOST
    \/ QuotationPdfRendered
    \/ ReceivePhotos
    \/ PhotosGET
    \/ PhotosUrlSettled
    \/ ReceiveDatasheet
    \/ DatasheetPOST
    \/ DatasheetImage
    \/ DatasheetRendered
    \/ DatasheetEmail
    \/ ReceiveQuotationEmail
    \/ QuotationEmailPOST
    \/ QuotationEmailQuotation
    \/ QuotationEmailRendered
    \/ QuotationEmailSent
    \/ ReceivePhotoAddendum
    \/ PhotoAddendumPOST
    \/ PhotoAddendumQuotation
    \/ PhotoAddendumImage
    \/ PhotoAddendumRendered
    \/ PhotoAddendumSent
    \/ Finish

Spec == Init /\ [][Next]_vars

(***************************************************************************)
(* Redelivery of one webhook request.  route.ts has no variable outside    *)
(* POST and the three handlers, so every delivery runs the handler on its  *)
(* own copy of the locals; pc, loc, calls and resp are functions of the    *)
(* delivery here, and the steps of different deliveries interleave at the  *)
(* awaits.                                                                 *)
(***************************************************************************)
Deliveries == 1..MaxDeliveries

\* the sender signs `timestamp.body`; a redelivered request may also carry a
\* timestamp other than the signed one, or none
ReplayRequests ==
    [signature : {[present |-> TRUE, value |-> HmacHex(SignedMessage(t, b))] :
                    t \in TsValues, b \in WebhookBodies},
     timestamp : Headers(TsValues),
     body : WebhookBodies]

\* the amounts of an invoice play no part in the webhook
ReplayInvoices(id) ==
    {i \in ProviderInvoices(id) : i.total = 10 /\ i.paidAmount = None}

RespondTo(d, r) ==
    /\ resp' = [resp EXCEPT ![d] = r]
    /\ pc' = [pc EXCEPT ![d] = "done"]

InitReplay ==
    /\ route = "webhook"
    /\ req \in ReplayRequests
    /\ pc = [d \in Deliveries |-> "start"]
    /\ loc = [d \in Deliveries |-> WebhookLoc]
    /\ calls = [d \in Deliveries |-> <<>>]
    /\ resp = [d \in Deliveries |-> NoResp]

\* lines 17-30 for delivery d
ReplayPOST(d) ==
    /\ pc[d] = "start"
    /\ IF HeaderMissing(req.signature) \/ HeaderMissing(req.timestamp)
       THEN /\ RespondTo(d, JsonError(401, "Missing webhook signature headers"))
            /\ UNCHANGED loc
       ELSE /\ pc' = [pc EXCEPT ![d] = "text"]
            /\ loc' = [loc EXCEPT ![d].bodyRead = TRUE]
            /\ UNCHANGED resp
    /\ UNCHANGED <<route, req, calls>>

\* lines 32-77 up to the event handler's first await, for delivery d
ReplayVerify(d) ==
    /\ pc[d] = "text"
    /\ LET event == JSONparse(req.body)
           handler == HandlerOf(event.type)
           expectedSignature == HmacHex(SignedMessage(req.timestamp.value, req.body))
           compared == TimingSafeEqualLengths(BufferFromHex(req.signature.value),
                                              BufferFromHex(expectedSignature))
           seen == [loc[d] EXCEPT !.compared = compared, !.verified = TRUE,
                                  !.parsed = TRUE]
       IN
       IF RangeError(compared)
       THEN /\ RespondTo(d, ServerError("Failed to process webhook"))
            /\ loc' = [loc EXCEPT ![d].compared = compared]
            /\ UNCHANGED calls
       ELSE IF ~SignatureAccepted(req.signature.value, req.timestamp.value, req.body)
       THEN /\ RespondTo(d, JsonError(401, "Invalid webhook signature"))
            /\ loc' = [loc EXCEPT ![d].compared = compared]
            /\ UNCHANGED calls
       ELSE IF ~event.valid \/ event.isNull
       THEN /\ RespondTo(d, ServerError("Failed to process webhook"))
            /\ loc' = [loc EXCEPT ![d] = seen]
            /\ UNCHANGED calls
       ELSE IF handler = ""
       THEN /\ RespondTo(d, JsonOk(200, [received |-> TRUE]))
            /\ loc' = [loc EXCEPT ![d] = seen]
            /\ UNCHANGED calls
       ELSE IF ~event.hasData
       THEN /\ RespondTo(d, ServerError("Failed to process webhook"))
            /\ loc' = [loc EXCEPT ![d] = [seen EXCEPT !.handler = handler]]
            /\ UNCHANGED calls
       ELSE /\ calls' = [calls EXCEPT ![d] =
                           Append(@, Call("invoices.get", event.invoiceId, 0))]
            /\ loc' = [loc EXCEPT ![d] = [seen EXCEPT !.handler = handler]]
            /\ pc' = [pc EXCEPT ![d] = "invoice"]
            /\ UNCHANGED resp
    /\ UNCHANGED <<route, req>>

\* delivery d's invoices.get settles
ReplayInvoice(d) ==
    /\ pc[d] = "invoice"
    /\ \/ /\ calls' = [calls EXCEPT ![d] = SettleLast(@, "fail")]
          /\ RespondTo(d, ServerError("Failed to process webhook"))
          /\ UNCHANGED loc
       \/ \E invoice \in ReplayInvoices(calls[d][Len(calls[d])].arg) :
            /\ calls' = [calls EXCEPT ![d] =
                           Append(ResolveLast(@, invoice),
                                  Call("customers.get", invoice.customerId, 0))]
            /\ loc' = [loc EXCEPT ![d].invoice = invoice]
            /\ pc' = [pc EXCEPT ![d] = "customer"]
            /\ UNCHANGED resp
    /\ UNCHANGED <<route, req>>

\* delivery d's customers.get settles
ReplayCustomer(d) ==
    /\ pc[d] = "customer"
    /\ \/ /\ calls' = [calls EXCEPT ![d] = SettleLast(@, "fail")]
          /\ RespondTo(d, ServerError("Failed to process webhook"))
          /\ UNCHANGED loc
       \/ \E customer \in ProviderCustomers(calls[d][Len(calls[d])].arg) :
            /\ calls' = [calls EXCEPT ![d] =
                           Append(ResolveLast(@, customer),
                                  Call("sendEmail",
                                       [to |-> customer.email,
                                        subject |-> SubjectOf(loc[d].handler),
                                        attachments |-> <<>>], 0))]
            /\ loc' = [loc EXCEPT ![d].customer = customer]
            /\ pc' = [pc EXCEPT ![d] = "email"]
            /\ UNCHANGED resp
    /\ UNCHANGED <<route, req>>

\* delivery d's sendEmail settles
ReplayEmail(d) ==
    /\ pc[d] = "email"
    /\ \E st \in Outcomes :
         /\ calls' = [calls EXCEPT ![d] = SettleLast(@, st)]
         /\ RespondTo(d, AfterHandler(st))
    /\ UNCHANGED <<route, req, loc>>

NextReplay ==
    \E d \in Deliveries :
        \/ ReplayPOST(d)
        \/ ReplayVerify(d)
        \/ ReplayInvoice(d)
        \/ ReplayCustomer(d)
        \/ ReplayEmail(d)

SpecReplay == InitReplay /\ [][NextReplay]_vars

(***************************************************************************)
(* Properties of the payment webhook.                                      *)
(***************************************************************************)
AbsentOrEmpty(h) == h.present => h.value = <<>>

BothHeaders ==
    /\ route = "webhook"
    /\ ~AbsentOrEmpty(req.signature)
    /\ ~AbsentOrEmpty(req.timestamp)

ExpectedSignature == HmacHex(SignedMessage(req.timestamp.value, req.body))

InvalidSignatureAnswer ==
    /\ ~loc.parsed
    /\ loc.handler = ""
    /\ calls = <<>>
    /\ pc = "done" => resp = JsonError(401, "Invalid webhook signature")

\* C1 as stated: with both headers present, a signature header that is not
\* the expected hex digest, character for character, is answered 401
\* 'Invalid webhook signature' and the body is never parsed or dispatched.
C1_AnyUnequalSignatureRejected ==
    (BothHeaders /\ req.signature.value # ExpectedSignature)
        => InvalidSignatureAnswer

\* C1 amended: with both headers present, a signature header whose hex
\* decoding (pairs of hex digits of either case, up to the first pair that is
\* not hex) differs from the bytes of the expected digest is answered 401
\* 'Invalid webhook signature' and the body is never parsed or dispatched.
C1_UnequalBytesRejected ==
    (BothHeaders
       /\ BufferFromHex(req.signature.value) # BufferFromHex(ExpectedSignature))
        => InvalidSignatureAnswer

\* a wrong signature of the right length has been rejected
C1_Witness ==
    /\ BothHeaders
    /\ pc = "done"
    /\ Len(BufferFromHex(req.signature.value)) = DigestLen
    /\ BufferFromHex(req.signature.value) # BufferFromHex(ExpectedSignature)
    /\ resp.status = 401
    /\ resp.error = "Invalid webhook signature"

\* C2: a request whose signature or timestamp header is absent or empty is
\* answered 401 'Missing webhook signature headers'; its body is not read and
\* no provider or email call is made.
C2_MissingHeadersRejected ==
    (route = "webhook"
       /\ (AbsentOrEmpty(req.signature) \/ AbsentOrEmpty(req.timestamp)))
        => /\ ~loc.bodyRead
           /\ calls = <<>>
           /\ pc = "done"
                => resp = JsonError(401, "Missing webhook signature headers")

\* an empty (present) signature header next to a timestamp has been rejected
C2_Witness ==
    /\ route = "webhook"
    /\ pc = "done"
    /\ req.signature.present /\ req.signature.value = <<>>
    /\ ~AbsentOrEmpty(req.timestamp)
    /\ resp.status = 401
    /\ resp.error = "Missing webhook signature headers"

\* C3: whenever the webhook has called invoices.get, customers.get or
\* sendEmail, the request's signature was verified before: the body was read,
\* and the decoded signature equals the digest of `timestamp.body`.
C3_CallsOnlyAfterVerification ==
    (route = "webhook" /\ calls # <<>>)
        => /\ BothHeaders
           /\ loc.bodyRead
           /\ loc.verified
           /\ BufferFromHex(req.signature.value) = BufferFromHex(ExpectedSignature)
           /\ \A i \in 1..Len(calls) :
                calls[i].op \in {"invoices.get", "customers.get", "sendEmail"}

\* a verified request has gone through all three calls
C3_Witness ==
    /\ route = "webhook"
    /\ loc.verified
    /\ Len(calls) = 3
    /\ calls[3].op = "sendEmail"
    /\ calls[3].st = "ok"

(***************************************************************************)
(* Properties of the error handling shared by the handlers.                *)
(***************************************************************************)
Done == pc = "done"

ParsesJson ==
    route \in {"invoice/create", "quotation/create", "quotation/email",
               "photo-addendum", "datasheet", "quotation/pdf"}

\* a getQuotation lookup of this request came back without a quotation
QuotationLookupEmpty ==
    \E i \in 1..Len(calls) :
        /\ calls[i].op = "getQuotation"
        /\ calls[i].st = "ok"
        /\ (~calls[i].ret[1].success \/ calls[i].ret[1].quotation = None)

\* a lookup the handler made found nothing
LookupFoundNothing ==
    CASE route = "products/get" ->
           /\ req.id \notin {None, Some("")}
           /\ getProductWithVariant(req.id[1], req.variantId) = None
      [] route \in {"quotation/get", "quotation/email", "photo-addendum"} ->
           QuotationLookupEmpty
      [] route = "photos" ->
           QuerySchemaOk(req) /\ getPhotosByProductId(req.productId) = None
      [] route = "datasheet" ->
           /\ req.json /\ DatasheetSchemaOk(req.body)
           /\ DatasheetProduct(req.body) = None
      [] route = "quotation/create" ->
           /\ req.json /\ CreateQuotationSchemaOk(req.body)
           /\ \E i \in 1..Len(req.body.items) :
                req.body.items[i].productId \notin ProductIds
      [] OTHER -> FALSE

\* C4: in every handler a lookup that finds nothing is answered 404:
\* products/get, quotation/get, quotation/email, photo-addendum, photos,
\* datasheet, and quotation/create for an item whose product is unknown.
C4_NotFoundIs404 ==
    (Done /\ LookupFoundNothing) => resp.status = 404

\* the request went through JSON parsing and then failed its schema
SchemaFails ==
    CASE route = "invoice/create" ->
           req.json /\ ~(req.body.email \in Emails /\ req.body.total > 0)
      [] route = "quotation/create" ->
           req.json /\ ~CreateQuotationSchemaOk(req.body)
      [] route = "quotation/email" ->
           req.json /\ ~EmailQuotationSchemaOk(req.body)
      [] route = "photo-addendum" ->
           req.json /\ ~PhotoAddendumSchemaOk(req.body)
      [] route = "datasheet" ->
           req.json /\ ~DatasheetSchemaOk(req.body)
      [] route = "photos" -> ~QuerySchemaOk(req)
      [] OTHER -> FALSE

\* C5: in every schema-validated handler a request that fails the schema is
\* answered 400 with an error and details, and no collaborator is called
\* for it.
C5_SchemaFailureIs400 ==
    SchemaFails
        => /\ calls = <<>>
           /\ Done => /\ resp.status = 400
                      /\ resp.error # ""
                      /\ resp.details

\* an invoice/create request with a malformed e-mail address was answered
C5_Witness ==
    /\ route = "invoice/create"
    /\ Done
    /\ req.json
    /\ req.body.email = "not-an-email"
    /\ resp.status = 400
    /\ resp.details

\* an exception other than a schema error was thrown inside the try block
\* and not caught before the handler's catch block
ThrownToCatch ==
    \/ ParsesJson /\ ~req.json
    \/ \E i \in 1..Len(calls) : calls[i].st = "fail" /\ calls[i].op # "getFile"
    \/ /\ route = "webhook" /\ loc.verified
       /\ \/ req.body \in {<<"garbage">>, <<"null">>, <<"paid:nodata">>}
    \/ /\ route = "quotation/create" /\ req.json
       /\ CreateQuotationSchemaOk(req.body)
       /\ \E i \in 1..Len(req.body.items) :
            req.body.items[i].productId \notin ProductIds
    \/ route = "quotation/pdf" /\ req.json /\ req.body = "null"

\* any exception at all, a rejected getFile included
Thrown ==
    \/ ThrownToCatch
    \/ \E i \in 1..Len(calls) : calls[i].st = "fail"

ErrorAnswer ==
    /\ resp.status = 500
    /\ resp.ctype = "application/json"
    /\ resp.error # ""
    /\ resp.message

\* some step of the handler that is running can be taken
HandlerStep ==
    \/ WebhookPOST
    \/ WebhookVerify
    \/ WebhookInvoice
    \/ WebhookCustomer
    \/ WebhookEmail
    \/ InvoiceCreatePOST
    \/ InvoiceCreateCustomer
    \/ InvoiceCreateInvoice
    \/ InvoiceStatusGET
    \/ InvoiceStatusInvoice
    \/ QuotationCreatePOST
    \/ QuotationCreateStored
    \/ QuotationGetGET
    \/ QuotationGetResult
    \/ ProductsGetGET
    \/ ProductsListGET
    \/ QuotationPdfPOST
    \/ QuotationPdfRendered
    \/ PhotosGET
    \/ PhotosUrlSettled
    \/ DatasheetPOST
    \/ DatasheetImage
    \/ DatasheetRendered
    \/ DatasheetEmail
    \/ QuotationEmailPOST
    \/ QuotationEmailQuotation
    \/ QuotationEmailRendered
    \/ QuotationEmailSent
    \/ PhotoAddendumPOST
    \/ PhotoAddendumQuotation
    \/ PhotoAddendumImage
    \/ PhotoAddendumRendered
    \/ PhotoAddendumSent

Answered ==
    /\ route # "idle" /\ ~Done => ENABLED HandlerStep
    /\ Done => resp.status \in {200, 201, 400, 401, 404, 500}

\* C6 as stated: every handler answers every request whatever the
\* collaborators do, and every exception that is not a schema error (a
\* rejecting collaborator, a body that is not JSON, a thrown Error) is
\* answered 500 with error and message.
C6_EveryExceptionIs500 ==
    /\ Answered
    /\ (Done /\ Thrown) => ErrorAnswer

\* C6 amended: every handler answers every request whatever the collaborators
\* do, and every exception that is not a schema error is answered 500 with
\* error and message, except a rejected getFile, which fetchImageAsDataUrl
\* catches: the image is left out and the request goes on.
C6_UncaughtExceptionIs500 ==
    /\ Answered
    /\ (Done /\ ThrownToCatch) => ErrorAnswer

\* a rejected invoices.get in the webhook's event handler was answered 500
C6_Witness ==
    /\ route = "webhook"
    /\ Done
    /\ Len(calls) = 1
    /\ calls[1].st = "fail"
    /\ resp.status = 500
    /\ resp.message

\* C7 as stated: within one request no collaborator operation is called
\* twice with the same arguments, so none is called again after it failed.
C7_NoRepeatedCall ==
    \A i, j \in 1..Len(calls) :
        (i < j /\ calls[i].op = calls[j].op) => calls[i].arg # calls[j].arg

\* C7 amended: within one request each collaborator operation is called at
\* most once per element of the request's lists (a product id or language
\* that the request repeats is processed once per occurrence), at most once
\* outside a loop, and a call that failed is never made again for the same
\* element.
C7_OnceForEachElement ==
    \A i, j \in 1..Len(calls) :
        (i < j /\ calls[i].op = calls[j].op) => calls[i].item # calls[j].item

\* a request naming the same product twice fetched the same photo key twice,
\* the first fetch having failed
C7_Witness ==
    /\ route = "photo-addendum"
    /\ Len(calls) >= 3
    /\ calls[1].op = "getFile" /\ calls[1].st = "fail"
    /\ calls[3].op = "getFile" /\ calls[3].arg = calls[1].arg

(***************************************************************************)
(* Properties of single handlers.                                          *)
(***************************************************************************)
\* C8: invoices.create is called only once customers.create has resolved,
\* with the id of the customer it resolved to; a rejected customers.create
\* ends the request without an invoice; 201 is returned only once
\* invoices.create has resolved, with that customer's id as customerId.
C8_InvoiceAfterCustomer ==
    route = "invoice/create"
        => /\ \A i \in 1..Len(calls) :
                calls[i].op = "invoices.create"
                    => /\ i = 2
                       /\ calls[1].op = "customers.create"
                       /\ calls[1].st = "ok"
                       /\ calls[i].arg.customerId = calls[1].ret[1].id
           /\ (calls # <<>> /\ calls[1].st = "fail") => Len(calls) = 1
           /\ resp.status = 201
                => /\ Len(calls) = 2
                   /\ calls[2].op = "invoices.create"
                   /\ calls[2].st = "ok"
                   /\ resp.data.invoice.id = calls[2].ret[1].id
                   /\ resp.data.invoice.customerId = calls[1].ret[1].id

\* an invoice was created for customer c2 although the provider's invoice
\* names another customer
C8_Witness ==
    /\ route = "invoice/create"
    /\ resp.status = 201
    /\ calls[1].ret[1].id = "c2"
    /\ calls[2].ret[1].customerId = "c1"

\* C9: the signed URLs are all requested before any is awaited; in whatever
\* order they complete, the 200 response lists the filtered photos in their
\* order, each with the URL generated for its own key, and photoCount is
\* their number; if one generation fails the response is 500 without a list.
C9_PhotosKeepOrder ==
    (route = "photos" /\ QuerySchemaOk(req)
       /\ getPhotosByProductId(req.productId) # None)
        => LET photos == FilteredPhotos(req, getPhotosByProductId(req.productId)[1])
           IN  /\ calls # <<>> => Len(calls) = Len(photos)
               /\ \A i \in 1..Len(calls) :
                    /\ calls[i].op = "getPresignedUrl"
                    /\ calls[i].arg.s3Key = photos[i].s3Key
               /\ (Done /\ \A i \in 1..Len(calls) : calls[i].st = "ok")
                    => /\ resp.status = 200
                       /\ resp.data.photoCount = Len(photos)
                       /\ Len(resp.data.photos) = Len(photos)
                       /\ \A i \in 1..Len(photos) :
                            /\ resp.data.photos[i].photo = photos[i]
                            /\ resp.data.photos[i].signedUrl = calls[i].ret[1]
                            /\ resp.data.photos[i].signedUrl[1] = photos[i].s3Key
               /\ (Done /\ \E i \in 1..Len(calls) : calls[i].st = "fail")
                    => resp.status = 500 /\ resp.data = "none"
               /\ Done => resp.status \in {200, 500}

\* three URLs completed last one first, and the response was 200
C9_Witness ==
    /\ route = "photos"
    /\ Done
    /\ resp.status = 200
    /\ loc.order = <<3, 1, 2>>

DatasheetPdfAsked ==
    /\ route = "datasheet"
    /\ req.json
    /\ DatasheetSchemaOk(req.body)
    /\ req.body.returnPdf = Some(TRUE)
    /\ (IF req.body.variantId # None
        THEN getProductWithVariant(req.body.productId, req.body.variantId)
        ELSE getProductById(req.body.productId)) # None

FirstLanguage ==
    IF req.body.languages # None /\ Len(req.body.languages[1]) > 0
    THEN req.body.languages[1][1]
    ELSE IF req.body.language # None THEN req.body.language[1] ELSE "en"

NoEmailSent == \A i \in 1..Len(calls) : calls[i].op # "sendEmail"

FirstLanguagePdf ==
    /\ resp.status = 200
    /\ resp.ctype = "application/pdf"
    /\ resp.data.lang = FirstLanguage

\* C10 as stated: a datasheet request with returnPdf true and a known
\* product is answered 200 with the PDF of the first generated language, and
\* no e-mail is sent, with or without a customer, for any number of languages.
C10_PdfAlwaysReturned ==
    DatasheetPdfAsked
        => /\ NoEmailSent
           /\ Done => FirstLanguagePdf

\* C10 amended: a datasheet request with returnPdf true and a known product
\* never sends an e-mail; it is answered 200 with the PDF of the first
\* generated language if the render of every requested language succeeds,
\* and 500 if one of them fails, were it not the first.
C10_PdfReturnedIfAllRender ==
    DatasheetPdfAsked
        => /\ NoEmailSent
           /\ Done =>
                IF \E i \in 1..Len(calls) :
                     calls[i].op = "renderToBuffer" /\ calls[i].st = "fail"
                THEN resp.status = 500
                ELSE FirstLanguagePdf

\* two languages and a customer: the PDF of the first language came back
C10_Witness ==
    /\ DatasheetPdfAsked
    /\ Done
    /\ req.body.customer # None
    /\ req.body.languages = Some(<<"nl", "en">>)
    /\ resp.status = 200
    /\ resp.ctype = "application/pdf"
    /\ resp.data.lang = "nl"

(***************************************************************************)
(* Properties of the lookups.                                              *)
(***************************************************************************)
\* the invoice the provider returned to this invoice/status request
ReturnedInvoice == calls[1].ret[1]

StatusAnswered ==
    /\ route = "invoice/status"
    /\ Done
    /\ calls # <<>>
    /\ calls[1].st = "ok"

\* the part of C11 about the two fields: without invoiceId the answer is 400
\* and the provider is not called; otherwise amountPaid is paidAmount, 0 when
\* absent, and amountDue is the difference total - amountPaid as the runtime
\* computes it
StatusFields ==
    /\ (route = "invoice/status" /\ req.invoiceId \in {None, Some("")})
         => /\ calls = <<>>
            /\ Done => resp.status = 400
    /\ StatusAnswered
         => /\ resp.status = 200
            /\ resp.data.invoice.total = ReturnedInvoice.total
            /\ resp.data.invoice.amountPaid
                 = (IF ReturnedInvoice.paidAmount = None THEN 0
                    ELSE ReturnedInvoice.paidAmount[1])
            /\ resp.data.invoice.amountDue
                 = FloatSub(ReturnedInvoice.total, resp.data.invoice.amountPaid)

\* C11 as stated: invoice/status without invoiceId is answered 400 without a
\* provider call; otherwise amountPaid is paidAmount or 0, amountDue is
\* total - amountPaid, and amountPaid + amountDue = total for every invoice.
C11_PaidPlusDueIsTotal ==
    /\ StatusFields
    /\ StatusAnswered
         => FloatAdd(resp.data.invoice.amountPaid, resp.data.invoice.amountDue)
              = resp.data.invoice.total

\* C11 amended: invoice/status without invoiceId is answered 400 without a
\* provider call; otherwise amountPaid is paidAmount or 0, amountDue is the
\* rounded difference total - amountPaid, and amountPaid + amountDue = total
\* whenever that difference needed no rounding.
C11_PaidPlusDueIsTotalIfExact ==
    /\ StatusFields
    /\ (StatusAnswered
          /\ resp.data.invoice.amountDue
               = resp.data.invoice.total - resp.data.invoice.amountPaid)
         => FloatAdd(resp.data.invoice.amountPaid, resp.data.invoice.amountDue)
              = resp.data.invoice.total

\* an invoice paid in part was reported, its two amounts adding up
C11_Witness ==
    /\ StatusAnswered
    /\ ReturnedInvoice.paidAmount = Some(4)
    /\ resp.data.invoice.amountPaid = 4
    /\ resp.data.invoice.amountDue = ReturnedInvoice.total - 4

\* what getQuotation resolved to in this quotation/get request
GetResult == calls[1].ret[1]

\* C12: quotation/get without an id is answered 400 and the database is not
\* called; a result with success false or without a quotation is answered
\* 404; any other result is answered 200 with success true and exactly the
\* quotation the database returned.
C12_QuotationGetAnswers ==
    route = "quotation/get"
        => /\ req.id \in {None, Some("")}
                => /\ calls = <<>>
                   /\ Done => resp.status = 400
           /\ (Done /\ calls # <<>> /\ calls[1].st = "ok")
                => IF ~GetResult.success \/ GetResult.quotation = None
                   THEN resp.status = 404 /\ resp.data = "none"
                   ELSE /\ resp.status = 200
                        /\ resp.data.success
                        /\ resp.data.quotation = GetResult.quotation[1]

\* a result that carries a quotation but says success false was answered 404
C12_Witness ==
    /\ route = "quotation/get"
    /\ Done
    /\ calls # <<>>
    /\ calls[1].st = "ok"
    /\ ~GetResult.success
    /\ GetResult.quotation # None
    /\ resp.status = 404

(***************************************************************************)
(* Properties of quotation creation                                        *)
(***************************************************************************)
\* the currency the schema hands on: the one given, USD when none is given
GivenCurrencyOrUSD ==
    IF req.body.currency = None THEN "USD" ELSE req.body.currency[1]

\* C13: quotation/create answers 201 with the stored quotation only after
\* createQuotation has resolved; createQuotation is called once and never
\* again; the record passed to it has status 'draft' and the validated
\* currency, USD when the request gives none.
C13_StoredOnceAsDraft ==
    route = "quotation/create"
        => /\ Len(calls) <= 1
           /\ \A i \in 1..Len(calls) :
                /\ calls[i].op = "createQuotation"
                /\ calls[i].arg.status = "draft"
                /\ calls[i].arg.currency = GivenCurrencyOrUSD
           /\ resp.status = 201
                => /\ Len(calls) = 1
                   /\ calls[1].st = "ok"
                   /\ resp.data.success
                   /\ resp.data.quotation = calls[1].ret[1].quotation

\* a request without a currency was stored in USD and answered 201
C13_Witness ==
    /\ route = "quotation/create"
    /\ req.json
    /\ req.body.currency = None
    /\ resp.status = 201
    /\ Len(calls) = 1
    /\ calls[1].st = "ok"
    /\ calls[1].arg.currency = "USD"
    /\ calls[1].ret[1].quotation # None

(***************************************************************************)
(* Properties of the product lookup                                        *)
(***************************************************************************)
\* what the catalog holds for the id and the variant of the request
CatalogEntry == getProductWithVariant(req.id[1], req.variantId)

\* C14: products/get without an id is answered 400 and the catalog is not
\* looked up; otherwise getProductWithVariant is called with the id and the
\* variantId of the request, an absent variantId as undefined; when it
\* returns nothing the answer is 404, otherwise 200 with success true and
\* the product it returned.
C14_ProductsGetAnswers ==
    (route = "products/get" /\ Done)
        => /\ calls = <<>>
           /\ IF req.id \in {None, Some("")}
              THEN loc.looked = None /\ resp.status = 400
              ELSE /\ loc.looked = Some(CatalogEntry)
                   /\ req.variantId = None => loc.variantId = None
                   /\ IF CatalogEntry = None
                      THEN resp.status = 404 /\ resp.data = "none"
                      ELSE /\ resp.status = 200
                           /\ resp.data.success
                           /\ resp.data.product = CatalogEntry[1]

\* a product was asked for with a variant and the variant came back
C14_Witness ==
    /\ route = "products/get"
    /\ Done
    /\ req.id = Some("p1")
    /\ req.variantId = Some("p1-v")
    /\ resp.status = 200
    /\ resp.data.product.id = "p1-v"

(***************************************************************************)
(* Properties of the payment webhook's event handlers                      *)
(***************************************************************************)
Event == JSONparse(req.body)

HandledTypes == {"invoice.paid", "invoice.payment_failed", "invoice.overdue"}

HandlerCalls == <<"invoices.get", "customers.get", "sendEmail">>

\* the request passed the signature check and names one of the three events
HandledEvent == route = "webhook" /\ loc.verified /\ Event.type \in HandledTypes

\* the calls made so far are the first of invoices.get(data.invoiceId),
\* customers.get(invoice.customerId), sendEmail(to: customer.email), each
\* one made after the one before it resolved
CallsInHandlerOrder ==
    /\ Len(calls) <= 3
    /\ \A i \in 1..Len(calls) : calls[i].op = HandlerCalls[i]
    /\ \A i \in 1..Len(calls) - 1 : calls[i].st = "ok"
    /\ Len(calls) >= 1 => calls[1].arg = Event.invoiceId
    /\ Len(calls) >= 2 => calls[2].arg = calls[1].ret[1].customerId
    /\ Len(calls) >= 3 => calls[3].arg.to = calls[2].ret[1].email

\* C15 as stated: every validly signed invoice.paid, invoice.payment_failed
\* or invoice.overdue event causes exactly one sendEmail.
C15_HandledEventSendsEmail ==
    (HandledEvent /\ Done)
        => /\ Len(calls) = 3
           /\ calls[3].op = "sendEmail"

\* C15: a validly signed invoice.paid, invoice.payment_failed or
\* invoice.overdue event calls invoices.get with data.invoiceId, then
\* customers.get with the invoice's customerId, then sendEmail to that
\* customer's email, never more than once each; the email is sent exactly
\* once when the event carries data and both lookups resolve, and not at all
\* otherwise.  Any other event type causes no call and is answered 200
\* {received: true}.
C15_HandledEventSendsEmailIfLookedUp ==
    (route = "webhook" /\ loc.verified)
        => IF Event.type \in HandledTypes
           THEN /\ CallsInHandlerOrder
                /\ Done => /\ Event.hasData <=> Len(calls) >= 1
                           /\ (Len(calls) >= 1 /\ calls[1].st = "ok")
                                => Len(calls) >= 2
                           /\ (Len(calls) >= 2 /\ calls[2].st = "ok")
                                => Len(calls) = 3
           ELSE /\ calls = <<>>
                /\ (Done /\ Event.valid /\ ~Event.isNull)
                     => /\ resp.status = 200
                        /\ resp.data = [received |-> TRUE]

\* an overdue notice went out to the customer of the invoice
C15_Witness ==
    /\ HandledEvent
    /\ Done
    /\ Event.type = "invoice.overdue"
    /\ Len(calls) = 3
    /\ calls[3].st = "ok"
    /\ calls[3].arg.to = calls[2].ret[1].email
    /\ calls[1].ret[1].customerId = calls[2].arg

\* C16: for invoice.paid, invoice.payment_failed and invoice.overdue the
\* acknowledgement {received: true} is returned only after invoices.get,
\* customers.get and sendEmail have all resolved; when one of them fails the
\* response is 500 and not the acknowledgement.
C16_AckOnlyAfterHandler ==
    (route = "webhook" /\ Event.type \in HandledTypes)
        => /\ resp.status = 200
                => /\ resp.data = [received |-> TRUE]
                   /\ Len(calls) = 3
                   /\ calls[3].op = "sendEmail"
                   /\ \A i \in 1..3 : calls[i].st = "ok"
           /\ (Done /\ \E i \in 1..Len(calls) : calls[i].st = "fail")
                => /\ resp.status = 500
                   /\ resp.data = "none"
                   /\ resp.error = "Failed to process webhook"

\* both lookups resolved, the email was rejected, and the answer was 500
C16_Witness ==
    /\ route = "webhook"
    /\ Event.type \in HandledTypes
    /\ Done
    /\ Len(calls) = 3
    /\ calls[3].op = "sendEmail"
    /\ calls[3].st = "fail"
    /\ resp.status = 500

(***************************************************************************)
(* Properties of redelivery (under SpecReplay)                             *)
(***************************************************************************)
\* the request delivered is an invoice.paid event signed by the sender
SignedPaidEvent ==
    /\ ~AbsentOrEmpty(req.timestamp)
    /\ req.signature.value = ExpectedSignature
    /\ Event.type = "invoice.paid"
    /\ Event.hasData

Acknowledged(d) ==
    resp[d].status = 200 /\ resp[d].data = [received |-> TRUE]

EmailSent(d) ==
    \E i \in 1..Len(calls[d]) :
        calls[d][i].op = "sendEmail" /\ calls[d][i].st = "ok"

AllDelivered == \A d \in Deliveries : pc[d] = "done"

\* C17 as stated: the same validly signed invoice.paid request delivered n
\* times, in any interleaving, results in n acknowledgements and n
\* confirmation emails.
C17_EveryDeliveryAcknowledged ==
    (SignedPaidEvent /\ AllDelivered)
        => \A d \in Deliveries : Acknowledged(d) /\ EmailSent(d)

\* C17: no delivery of a validly signed invoice.paid request is turned away
\* for its timestamp or because of another delivery: each one passes the
\* signature check and runs the handler on its own, is acknowledged exactly
\* when its own invoices.get, customers.get and sendEmail all succeed, and
\* then has sent one email of its own; so there are as many emails as
\* acknowledgements, n of each when no call fails.
C17_EveryDeliveryHandledAlone ==
    SignedPaidEvent
        => /\ \A d \in Deliveries :
                /\ Len(calls[d]) <= 3
                /\ \A i \in 1..Len(calls[d]) : calls[d][i].op = HandlerCalls[i]
                /\ pc[d] = "done"
                     => /\ resp[d].status \in {200, 500}
                        /\ calls[d] # <<>>
                        /\ Acknowledged(d)
                             <=> \A i \in 1..Len(calls[d]) : calls[d][i].st = "ok"
                        /\ Acknowledged(d) <=> EmailSent(d)
           /\ Cardinality({d \in Deliveries : Acknowledged(d)})
                = Cardinality({d \in Deliveries : EmailSent(d)})

\* every delivery of one signed request, carrying the older timestamp, was
\* acknowledged and sent its email
C17_Witness ==
    /\ SignedPaidEvent
    /\ req.timestamp.value = <<"1">>
    /\ AllDelivered
    /\ \A d \in Deliveries : Acknowledged(d) /\ EmailSent(d) /\ Len(calls[d]) = 3

(***************************************************************************)
(* Properties of the signature comparison                                  *)
(***************************************************************************)
SignatureBytes == Len(BufferFromHex(req.signature.value))

DigestBytesExpected == Len(BufferFromHex(ExpectedSignature))

\* C18: timingSafeEqual is only called with two buffers of equal length; a
\* signature header that decodes to a different number of bytes than the
\* expected digest is answered 401 and never 500.
C18_EqualLengthsCompared ==
    BothHeaders
        => /\ loc.compared # None => loc.compared[1][1] = loc.compared[1][2]
           /\ (Done /\ SignatureBytes # DigestBytesExpected)
                => /\ loc.compared = None
                   /\ resp.status = 401
                   /\ resp.error = "Invalid webhook signature"

\* a signature of one byte more than the digest was answered 401 without a
\* comparison
C18_Witness ==
    /\ BothHeaders
    /\ Done
    /\ SignatureBytes = DigestBytesExpected + 1
    /\ loc.compared = None
    /\ resp.status = 401

(***************************************************************************)
(* Properties of failures half way                                         *)
(***************************************************************************)
\* customers.create resolved and invoices.create was rejected
InvoiceFailedAfterCustomer ==
    /\ route = "invoice/create"
    /\ Len(calls) >= 2
    /\ calls[1].op = "customers.create" /\ calls[1].st = "ok"
    /\ calls[2].op = "invoices.create" /\ calls[2].st = "fail"

\* C19: when customers.create succeeds and invoices.create fails, the
\* response is 500 and no further provider call is made: the customer that
\* was created is neither deleted nor compensated for.
C19_CustomerLeftBehind ==
    InvoiceFailedAfterCustomer
        => /\ Len(calls) = 2
           /\ Done
           /\ resp.status = 500
           /\ resp.error = "Failed to create invoice"

\* the invoice of a created customer was rejected
C19_Witness ==
    /\ InvoiceFailedAfterCustomer
    /\ calls[1].ret[1].id \in CustomerIds
    /\ resp.status = 500

\* the positions of the items whose productId the catalog does not hold
UnknownItems ==
    {i \in 1..Len(req.body.items) : req.body.items[i].productId \notin ProductIds}

\* C20: when any item of a quotation/create request names a product that is
\* not in the catalog, whatever its position among the items, createQuotation
\* is never called.
C20_UnknownProductStoresNothing ==
    (route = "quotation/create" /\ req.json /\ UnknownItems # {})
        => \A i \in 1..Len(calls) : calls[i].op # "createQuotation"

\* a request whose last item, after a known one, is unknown was answered
\* without a call
C20_Witness ==
    /\ route = "quotation/create"
    /\ req.json
    /\ Len(req.body.items) = MaxItems
    /\ UnknownItems = {MaxItems}
    /\ CreateQuotationSchemaOk(req.body)
    /\ Done
    /\ calls = <<>>
    /\ resp.status = 500

(***************************************************************************)
(* Properties of the item prices                                           *)
(***************************************************************************)
\* the items of the request and the items handed to createQuotation
AskedItems == req.body.items

StoredItems == calls[1].arg.items

QuotationStoring ==
    /\ route = "quotation/create"
    /\ calls # <<>>
    /\ calls[1].op = "createQuotation"

\* the catalog price for an id in the currency of the request, the base
\* price of the product when there is none or it is 0
CatalogOrBasePrice(pricingId, productId) ==
    IF getProductPrice(pricingId, calls[1].arg.currency) # 0
    THEN getProductPrice(pricingId, calls[1].arg.currency)
    ELSE BasePrice(productId)

\* the price the statement gives item i, priced by the id pricingId
PriceBy(i, pricingId) ==
    IF AskedItems[i].customPrice # None
    THEN AskedItems[i].customPrice[1]
    ELSE CatalogOrBasePrice(pricingId, AskedItems[i].productId)

\* item i carries the price for pricingId, its multiple and its id; items
\* are counted from 0 in the id
ItemPricedBy(i, pricingId) ==
    /\ StoredItems[i].unitPrice = PriceBy(i, pricingId)
    /\ StoredItems[i].totalPrice = StoredItems[i].unitPrice * AskedItems[i].quantity
    /\ StoredItems[i].id = <<AskedItems[i].productId, i - 1>>

\* C21 as stated: every item is priced by its customPrice when one is given,
\* else by the catalog price for its variantId when one is given and for its
\* productId when none is, else by the base price.
C21_PricedByGivenVariant ==
    QuotationStoring
        => /\ Len(StoredItems) = Len(AskedItems)
           /\ \A i \in 1..Len(AskedItems) :
                ItemPricedBy(i, IF AskedItems[i].variantId # None
                                THEN AskedItems[i].variantId[1]
                                ELSE AskedItems[i].productId)

\* C21: every item's unitPrice is its customPrice whenever one is given, 0
\* included; otherwise the catalog price, in the currency of the request, for
\* its variantId when that is given and not the empty string and for its
\* productId otherwise; otherwise the product's basePrice when that catalog
\* price is absent or 0.  totalPrice is unitPrice * quantity and the id is the
\* productId with the item's position, counted from 0.
C21_PricedByNonEmptyVariant ==
    QuotationStoring
        => /\ Len(StoredItems) = Len(AskedItems)
           /\ \A i \in 1..Len(AskedItems) :
                ItemPricedBy(i, IF AskedItems[i].variantId # None
                                     /\ AskedItems[i].variantId[1] # ""
                                THEN AskedItems[i].variantId[1]
                                ELSE AskedItems[i].productId)

\* a quotation in euros whose item has an empty variantId was priced by its
\* productId, and one with a custom price of 0 by that
C21_Witness ==
    /\ QuotationStoring
    /\ calls[1].arg.currency = "EUR"
    /\ \E i \in 1..Len(AskedItems) :
         /\ AskedItems[i].variantId = Some("")
         /\ StoredItems[i].unitPrice = 45
    /\ \E i \in 1..Len(AskedItems) :
         /\ AskedItems[i].customPrice = Some(0)
         /\ StoredItems[i].totalPrice = 0

====
